---- MODULE Spec2Model ----
(***************************************************************************)
(* A model of the antenna message pipeline.                                *)
(*                                                                         *)
(* Part 1: the outbound transport, src/src/handlers/RabbitMQSender.ts.     *)
(* Node runs one callback at a time: every action below is one             *)
(* run-to-completion block of the source, from an entry point or the       *)
(* resolution of an awaited promise up to the next await or return.        *)
(* The broker, its connection and channel objects and the timers are the   *)
(* environment: what they answer and when they fire is chosen freely.      *)
(*                                                                         *)
(* Part 2: validateE164 as a pure function over bounded strings.           *)
(***************************************************************************)
EXTENDS Integers, Sequences, FiniteSets, TLC

(***************************************************************************)
(* Bounds of the model.                                                    *)
(***************************************************************************)
\* broker connections that are ever established
MaxConns == 2
\* sendSMS calls
MaxSends == 1
\* 1 minute timers pending for one correlation id
MaxGraceTimers == 1
MaxWindowReceipts == 2
\* digits of the longest phone number tried (E.164 allows 15)
MaxDigits == 17
\* the largest config.maxReconnectAttempts the reconnect loop is run with
MaxConfigured == 9
\* rows the messages table can hold
MaxRows == 3
\* addRule calls between two resetRules calls
MaxCustom == 2
\* messages of a processBatch call
MaxBatch == 2
\* sendViaTwilio calls
MaxTwilio == 1

(***************************************************************************)
(* Program constants.                                                      *)
(***************************************************************************)
\* "maxReconnectAttempts: 10" and "this.config.maxReconnectAttempts || 10"
DefaultMaxReconnectAttempts == 10
\* \d{1,14} of the E.164 expression
E164MaxTail == 14
\* \d{1,14} of the E.164 expression
E164MinTail == 1

Conns == 1..MaxConns
Sends == 1..MaxSends
\* correlation ids: every call can have one of its own
Sids == 1..MaxSends
\* the values of config.maxReconnectAttempts the model is constructed with
ConfiguredAttempts == {2}
\* the sendViaTwilio calls
Twilios == 1..MaxTwilio
\* the ids of the rows, and one id more that no row has
RowIds == 1..(MaxRows + 1)

VARIABLES
    \* ---- RabbitMQSender fields
    maxReconnectAttempts,  \* config.maxReconnectAttempts
    isConnected,
    isConnecting,
    reconnectAttempts,
    reconnectTimer,        \* TRUE: this.reconnectTimer holds a timer
    pendingTimers,         \* the timers that setTimeout armed in scheduleReconnect
                           \* and that have neither fired nor been cleared
    channel,               \* 0: undefined, else the channel object
    connectionModel,       \* 0: undefined, else the connection object
    deliveryCallbacks,     \* sid -> 0 (no entry) or the send whose callback it is
    \* ---- the connect() call in progress
    connPc,                \* the await connect() is suspended at
    connCaller,            \* 0: connect() was called directly or by the timer,
                           \* else the sendSMS call that awaits it
    connConn,              \* the connection object connect() dialled
    \* ---- the close() call in progress
    closePc,
    closeObj,              \* the channel or connection close() is closing
    \* ---- the sendSMS calls
    sendPc,
    sendSid,
    sendCb,                \* onDelivery was supplied
    sendResult,
    sendChan,              \* the channel the call waits on for 'drain'
    expiryTimer,           \* the 5 minute timer of the call is pending
    graceTimers,           \* sid -> number of pending 1 minute timers
    \* ---- the broker's objects
    connState,
    chanState,
    consumer,              \* the channel has the receipt consumer
    \* ---- observation
    lastPublish,           \* the last sendToQueue call, NoPublish before the first:
                           \* callback is "plain" for a call without onDelivery,
                           \* else whether the callback was "registered" or
                           \* "unregistered" when sendToQueue was called; outcome
                           \* is what sendToQueue did
    autoDials,             \* amqplib connect() calls made from the reconnect timer
                           \* since connect() or sendSMS() last dialled or a
                           \* connect() last succeeded
    idleConnects,          \* a connect() call has met the Connected or Connecting
                           \* transport
    closedSince,           \* close() has returned, and neither connect() nor
                           \* sendSMS() was called since
    lastReceipt,           \* what the consumer did in the step that led here:
                           \* the call whose callback it invoked and its answer
                           \* to the broker; NoReceipt when that step was not
                           \* the consumer's
    \* ---- validateE164 on its own
    phone,
    e164Result,
    \* ---- QueueManager
    messages,              \* the status column of the messages table, by row id
    inserts,               \* INSERT statements that have succeeded
    lastQueueCall,         \* the last call of the QueueManager: [op, id, threw]
    \* ---- AutoResponder
    messageDbId,           \* messageDbId of each sendViaDekuSMS call, 0: undefined
    dekuResult,            \* what each sendViaDekuSMS call returned
    twilioResult,          \* what each sendViaTwilio call returned
    smsEnabled,            \* this.smsEnabled
    initConnect,           \* the promise of the connect() call of
                           \* initializeDekuSMS: "none" where the model leaves
                           \* that call out, else "pending" or "settled"
    \* ---- RoutingHandler
    rules,                 \* this.rules
    customAdded,           \* the rules passed to addRule since the constructor or
                           \* the last resetRules, in the order of the calls
    routed,                \* the message findMatchingRule was last called on
    decision,              \* what that call returned, or that it threw
    batch,                 \* the messages processBatch was called with
    results,               \* the results array of processBatch
    procPc,                \* where the process() call of the batch stands
    procRow,               \* messageId of that process() call, 0 before the insert
    procTrail              \* the statuses the row of that call has had

tvars == <<maxReconnectAttempts, isConnected, isConnecting, reconnectAttempts,
           reconnectTimer, pendingTimers, channel, connectionModel, deliveryCallbacks,
           connPc, connCaller, connConn, closePc, closeObj,
           sendPc, sendSid, sendCb, sendResult, sendChan, expiryTimer,
           graceTimers, connState, chanState, consumer,
           lastPublish, autoDials, idleConnects, closedSince, lastReceipt>>
\* the transport's variables other than lastReceipt
transportState ==
    <<maxReconnectAttempts, isConnected, isConnecting, reconnectAttempts,
      reconnectTimer, pendingTimers, channel, connectionModel, deliveryCallbacks,
      connPc, connCaller, connConn, closePc, closeObj,
      sendPc, sendSid, sendCb, sendResult, sendChan, expiryTimer,
      graceTimers, connState, chanState, consumer,
      lastPublish, autoDials, idleConnects, closedSince>>
evars == <<phone, e164Result>>
queueVars == <<messages, inserts, lastQueueCall>>
dispatchVars == <<messageDbId, dekuResult, twilioResult, smsEnabled, initConnect>>
\* what no block of RabbitMQSender touches
routingVars == <<rules, customAdded, routed, decision>>
processVars == <<batch, results, procPc, procRow, procTrail>>
others == <<evars, queueVars, dispatchVars, routingVars, processVars>>
vars == <<tvars, evars, queueVars, dispatchVars, routingVars, processVars>>

(***************************************************************************)
(* validateE164: /^\+[1-9]\d{1,14}$/.test(phoneNumber)                     *)
(* A string is a sequence of one-character strings.  The expression is     *)
(* matched the way a backtracking matcher does: the anchors, then one      *)
(* item after the other, the counted item greedily.                        *)
(***************************************************************************)
Digits == {"0", "1", "2", "3", "4", "5", "6", "7", "8", "9"}
NonZeroDigits == Digits \ {"0"}

\* the number of consecutive \d characters of p from position i, at most max
RECURSIVE DigitRun(_, _, _)
DigitRun(p, i, max) ==
    IF max = 0 \/ i > Len(p) \/ p[i] \notin Digits
    THEN 0
    ELSE 1 + DigitRun(p, i + 1, max - 1)

MutE164NoUpperBound(p) ==
    /\ Len(p) >= 2
    /\ p[1] = "+"
    /\ p[2] \in NonZeroDigits
    /\ LET n == DigitRun(p, 3, Len(p))
       IN  /\ n >= E164MinTail
           /\ 3 + n = Len(p) + 1

MutE164LeadingZero(p) ==
    /\ Len(p) >= 2
    /\ p[1] = "+"
    /\ p[2] \in Digits
    /\ LET n == DigitRun(p, 3, E164MaxTail)
       IN  /\ n >= E164MinTail
           /\ 3 + n = Len(p) + 1

validateE164(p) ==
    /\ Len(p) >= 2
    /\ p[1] = "+"                               \* ^\+
    /\ p[2] \in NonZeroDigits                   \* [1-9]
    /\ LET n == DigitRun(p, 3, E164MaxTail)     \* \d{1,14}, greedy
       IN  /\ n >= E164MinTail
           /\ 3 + n = Len(p) + 1                \* $

(***************************************************************************)
(* RabbitMQSender                                                          *)
(***************************************************************************)
\* the destinations sendSMS is called with: "+12", "+01", "12"
Destinations == { <<"+", "1", "2">>, <<"+", "0", "1">>, <<"1", "2">> }

NoCallbacks == [sid \in Sids |-> 0]

NoPublish == [callback |-> "none", outcome |-> "none"]

NoReceipt == [invoked |-> 0, answer |-> "none", kind |-> "none"]

\* a step that is not the consumer's
NotConsuming == lastReceipt' = NoReceipt

\* this.config.maxReconnectAttempts || 10
MaxAttempts ==
    IF maxReconnectAttempts = 0 THEN DefaultMaxReconnectAttempts
    ELSE maxReconnectAttempts

MutScheduleOffByOne(timer, attempts) ==
    IF timer THEN [timer |-> timer, attempts |-> attempts, armed |-> 0]
    ELSE IF attempts > MaxAttempts
    THEN [timer |-> FALSE, attempts |-> attempts, armed |-> 0]
    ELSE [timer |-> TRUE, attempts |-> attempts + 1, armed |-> 1]

MutScheduleUnguarded(timer, attempts) ==
    IF attempts >= MaxAttempts
    THEN [timer |-> timer, attempts |-> attempts, armed |-> 0]
    ELSE [timer |-> TRUE, attempts |-> attempts + 1, armed |-> 1]

\* scheduleReconnect(): the timer field and the counter it leaves, and the
\* number of timers it armed with setTimeout
scheduleReconnect(timer, attempts) ==
    IF timer THEN [timer |-> timer, attempts |-> attempts, armed |-> 0]
    ELSE IF attempts >= MaxAttempts
    THEN [timer |-> FALSE, attempts |-> attempts, armed |-> 0]
    ELSE [timer |-> TRUE, attempts |-> attempts + 1, armed |-> 1]

\* handleDisconnect()
handleDisconnect ==
    LET r == scheduleReconnect(reconnectTimer, reconnectAttempts)
    IN  /\ isConnected' = FALSE
        /\ channel' = 0
        /\ connectionModel' = 0
        /\ reconnectTimer' = r.timer
        /\ pendingTimers' = pendingTimers + r.armed
        /\ reconnectAttempts' = r.attempts

MutAlreadyConnectedOnly == isConnected

\* connect(): if (this.isConnected || this.isConnecting) return
AlreadyConnected == isConnected \/ isConnecting

\* connect(), from the guard to "await connect(url)"
StartConnect(caller, byTimer) ==
    /\ isConnecting' = TRUE
    /\ connPc' = "dial"
    /\ connCaller' = caller
    /\ autoDials' = IF byTimer THEN autoDials + 1 ELSE 0

MutConnectFailedSilently ==
    LET r == scheduleReconnect(reconnectTimer, reconnectAttempts)
    IN  /\ isConnecting' = FALSE
        /\ connPc' = "idle"
        /\ connCaller' = 0
        /\ reconnectTimer' = r.timer
        /\ pendingTimers' = pendingTimers + r.armed
        /\ reconnectAttempts' = r.attempts
        /\ IF connCaller = 0
           THEN UNCHANGED <<sendPc, sendResult>>
           ELSE /\ sendPc' = [sendPc EXCEPT ![connCaller] = "done"]
                /\ sendResult' = [sendResult EXCEPT ![connCaller] = "ok"]

\* connect(), the catch block, and the return of the sendSMS call that awaited it
ConnectFailed ==
    LET r == scheduleReconnect(reconnectTimer, reconnectAttempts)
    IN  /\ isConnecting' = FALSE
        /\ connPc' = "idle"
        /\ connCaller' = 0
        /\ reconnectTimer' = r.timer
        /\ pendingTimers' = pendingTimers + r.armed
        /\ reconnectAttempts' = r.attempts
        /\ IF connCaller = 0
           THEN UNCHANGED <<sendPc, sendResult>>
           ELSE /\ sendPc' = [sendPc EXCEPT ![connCaller] = "done"]
                /\ sendResult' = [sendResult EXCEPT ![connCaller] = "notconnected"]

\* what channel.sendToQueue can do: return true, return false, throw
PublishOutcomes(c) ==
    IF chanState[c] = "open" THEN {"sent", "full", "throw"} ELSE {"throw"}

\* this.deliveryCallbacks.set(messageSid, onDelivery), if onDelivery
RegisterCallback(cbs, s, sid, cb) ==
    IF cb THEN [cbs EXCEPT ![sid] = s] ELSE cbs

MutRegistryBeforeRegister(cbs, s, sid, cb) == cbs

\* the registry that sendToQueue is called with: the callback is set first
RegistryAtPublish(cbs, s, sid, cb) == RegisterCallback(cbs, s, sid, cb)

MutThrowKeepsCallback(out) ==
    CASE out = "sent" -> [pc |-> "done", result |-> "ok", keep |-> TRUE]
      [] out = "full" -> [pc |-> "drainWait", result |-> "none", keep |-> TRUE]
      [] OTHER -> [pc |-> "done", result |-> "error", keep |-> TRUE]

MutFullFails(out) ==
    CASE out = "sent" -> [pc |-> "done", result |-> "ok", keep |-> TRUE]
      [] out = "full" -> [pc |-> "done", result |-> "error", keep |-> FALSE]
      [] OTHER -> [pc |-> "done", result |-> "error", keep |-> FALSE]

\* sendSMS after sendToQueue: where the call goes, its result, and whether the
\* callback it registered is kept
AfterPublish(out) ==
    CASE out = "sent" -> [pc |-> "done", result |-> "ok", keep |-> TRUE]
      [] out = "full" -> [pc |-> "drainWait", result |-> "none", keep |-> TRUE]
      [] OTHER -> [pc |-> "done", result |-> "error", keep |-> FALSE]

\* sendSMS from "if (!this.channel)" to its return or to the wait for 'drain'
SendContinue(s, sid, cb, out) ==
    IF channel = 0
    THEN /\ sendPc' = [sendPc EXCEPT ![s] = "done"]
         /\ sendResult' = [sendResult EXCEPT ![s] = "nochannel"]
         /\ UNCHANGED <<sendChan, expiryTimer, lastPublish, deliveryCallbacks>>
    ELSE LET reg == RegisterCallback(deliveryCallbacks, s, sid, cb)
             a == AfterPublish(out)
         IN  /\ out \in PublishOutcomes(channel)
             /\ lastPublish' =
                    [callback |->
                         IF ~cb THEN "plain"
                         ELSE IF RegistryAtPublish(deliveryCallbacks, s, sid, cb)[sid] = s
                         THEN "registered"
                         ELSE "unregistered",
                     outcome |-> out]
             /\ expiryTimer' = [expiryTimer EXCEPT ![s] = cb]
             /\ deliveryCallbacks' =
                    IF a.keep \/ ~cb THEN reg ELSE [reg EXCEPT ![sid] = 0]
             /\ sendChan' = [sendChan EXCEPT ![s] =
                                 IF a.pc = "drainWait" THEN channel ELSE 0]
             /\ sendPc' = [sendPc EXCEPT ![s] = a.pc]
             /\ sendResult' = [sendResult EXCEPT ![s] = a.result]

sendVars == <<sendPc, sendSid, sendCb, sendResult, sendChan, expiryTimer,
              lastPublish>>
brokerVars == <<connState, chanState, consumer>>
closeVars == <<closePc, closeObj>>
receiptVars == <<graceTimers>>
senderFields == <<isConnected, isConnecting, reconnectAttempts, reconnectTimer, pendingTimers,
                  channel, connectionModel, deliveryCallbacks>>
connectVars == <<connPc, connCaller, connConn, autoDials>>

TransportInit(configured) ==
    /\ maxReconnectAttempts \in configured
    /\ isConnected = FALSE
    /\ isConnecting = FALSE
    /\ reconnectAttempts = 0
    /\ reconnectTimer = FALSE
    /\ pendingTimers = 0
    /\ channel = 0
    /\ connectionModel = 0
    /\ deliveryCallbacks = NoCallbacks
    /\ connPc = "idle"
    /\ connCaller = 0
    /\ connConn = 0
    /\ closePc = "idle"
    /\ closeObj = 0
    /\ sendPc = [s \in Sends |-> "idle"]
    /\ sendSid = [s \in Sends |-> 0]
    /\ sendCb = [s \in Sends |-> FALSE]
    /\ sendResult = [s \in Sends |-> "none"]
    /\ sendChan = [s \in Sends |-> 0]
    /\ expiryTimer = [s \in Sends |-> FALSE]
    /\ graceTimers = [sid \in Sids |-> 0]
    /\ connState = [c \in Conns |-> "none"]
    /\ chanState = [c \in Conns |-> "none"]
    /\ consumer = [c \in Conns |-> FALSE]
    /\ lastPublish = NoPublish
    /\ autoDials = 0
    /\ idleConnects = FALSE
    /\ closedSince = FALSE
    /\ lastReceipt = NoReceipt

(***************************************************************************)
(* connect()                                                               *)
(***************************************************************************)
\* an external call of connect()
Connect ==
    /\ idleConnects' = (idleConnects \/ isConnected \/ isConnecting)
    /\ closedSince' = FALSE
    /\ IF AlreadyConnected
       THEN UNCHANGED <<isConnecting, connectVars>>
       ELSE /\ StartConnect(0, FALSE)
            /\ UNCHANGED connConn
    /\ NotConsuming
    /\ UNCHANGED <<others, maxReconnectAttempts, isConnected, reconnectAttempts,
                   reconnectTimer, pendingTimers, channel, connectionModel, deliveryCallbacks,
                   closeVars, sendVars, brokerVars, receiptVars>>

\* the reconnect timer fires: this.reconnectTimer = undefined; this.connect()
ReconnectTimerFire ==
    /\ reconnectTimer
    /\ reconnectTimer' = FALSE
    /\ pendingTimers' = pendingTimers - 1
    /\ IF AlreadyConnected
       THEN UNCHANGED <<isConnecting, connectVars>>
       ELSE /\ StartConnect(0, TRUE)
            /\ UNCHANGED connConn
    /\ NotConsuming
    /\ UNCHANGED <<others, maxReconnectAttempts, isConnected, reconnectAttempts,
                   channel, connectionModel, deliveryCallbacks,
                   closeVars, sendVars, brokerVars, receiptVars, idleConnects,
                   closedSince>>

\* "await connect(url)" resolves: the handlers are set and createChannel is called
DialOk(c) ==
    /\ connPc = "dial"
    /\ connState[c] = "none"
    /\ \A d \in Conns : d < c => connState[d] # "none"
    /\ connState' = [connState EXCEPT ![c] = "open"]
    /\ connectionModel' = c
    /\ connConn' = c
    /\ connPc' = "createChannel"
    /\ NotConsuming
    /\ UNCHANGED <<others, maxReconnectAttempts, isConnected, isConnecting,
                   reconnectAttempts, reconnectTimer, pendingTimers, channel, deliveryCallbacks,
                   connCaller, autoDials, closeVars, sendVars, chanState,
                   consumer, receiptVars, idleConnects, closedSince>>

\* "await connect(url)" rejects
DialFail ==
    /\ connPc = "dial"
    /\ ConnectFailed
    /\ NotConsuming
    /\ UNCHANGED <<others, maxReconnectAttempts, isConnected, channel, connectionModel,
                   deliveryCallbacks, connConn, autoDials, closeVars,
                   sendSid, sendCb, sendChan, expiryTimer, lastPublish, brokerVars, receiptVars, idleConnects, closedSince>>

\* "await createChannel()" resolves: this.channel is set, its handlers are set
\* and assertQueue(queueName) is called
CreateChannelOk ==
    /\ connPc = "createChannel"
    /\ connState[connConn] = "open"
    /\ chanState' = [chanState EXCEPT ![connConn] = "open"]
    /\ channel' = connConn
    /\ connPc' = "assertQueue"
    /\ NotConsuming
    /\ UNCHANGED <<others, maxReconnectAttempts, isConnected, isConnecting,
                   reconnectAttempts, reconnectTimer, pendingTimers, connectionModel,
                   deliveryCallbacks, connCaller, connConn, autoDials,
                   closeVars, sendVars, connState, consumer, receiptVars,
                   idleConnects, closedSince>>

\* "await assertQueue(queueName)" resolves: this.channel.assertQueue(callbackQueue)
\* is called, which throws when this.channel is undefined by now
AssertQueueOk ==
    /\ connPc = "assertQueue"
    /\ chanState[connConn] = "open"
    /\ IF channel = 0
       THEN ConnectFailed
       ELSE /\ connPc' = "assertCallbackQueue"
            /\ UNCHANGED <<isConnecting, connCaller, reconnectTimer, pendingTimers,
                           reconnectAttempts, sendPc, sendResult>>
    /\ NotConsuming
    /\ UNCHANGED <<others, maxReconnectAttempts, isConnected, channel, connectionModel,
                   deliveryCallbacks, connConn, autoDials, closeVars,
                   sendSid, sendCb, sendChan, expiryTimer, lastPublish, brokerVars, receiptVars, idleConnects, closedSince>>

\* "await assertQueue(callbackQueue)" resolves: setupDeliveryReceiptListener()
\* throws when this.channel is undefined, else calls consume
AssertCallbackQueueOk ==
    /\ connPc = "assertCallbackQueue"
    /\ chanState[connConn] = "open"
    /\ IF channel = 0
       THEN ConnectFailed
       ELSE /\ connPc' = "consume"
            /\ UNCHANGED <<isConnecting, connCaller, reconnectTimer, pendingTimers,
                           reconnectAttempts, sendPc, sendResult>>
    /\ NotConsuming
    /\ UNCHANGED <<others, maxReconnectAttempts, isConnected, channel, connectionModel,
                   deliveryCallbacks, connConn, autoDials, closeVars,
                   sendSid, sendCb, sendChan, expiryTimer, lastPublish, brokerVars, receiptVars, idleConnects, closedSince>>

\* "await consume(...)" resolves: connect() sets its flags and returns; a
\* sendSMS call that awaited it goes on
ConsumeOk ==
    /\ connPc = "consume"
    /\ chanState[connConn] = "open"
    /\ consumer' = [consumer EXCEPT ![connConn] = TRUE]
    /\ isConnected' = TRUE
    /\ isConnecting' = FALSE
    /\ reconnectAttempts' = 0
    /\ connPc' = "idle"
    /\ connCaller' = 0
    /\ autoDials' = 0
    /\ IF connCaller = 0
       THEN UNCHANGED <<sendPc, sendResult, sendChan, expiryTimer, lastPublish,
                        deliveryCallbacks>>
       ELSE \E out \in {"sent", "full", "throw"} :
                SendContinue(connCaller, sendSid[connCaller], sendCb[connCaller], out)
    /\ NotConsuming
    /\ UNCHANGED <<others, maxReconnectAttempts, reconnectTimer, pendingTimers, channel, connectionModel,
                   connConn, closeVars, sendSid, sendCb,
                   connState, chanState, receiptVars, idleConnects, closedSince>>

\* createChannel, assertQueue or consume rejects
ConnectStepFail ==
    /\ connPc \in {"createChannel", "assertQueue", "assertCallbackQueue", "consume"}
    /\ ConnectFailed
    /\ NotConsuming
    /\ UNCHANGED <<others, maxReconnectAttempts, isConnected, channel, connectionModel,
                   deliveryCallbacks, connConn, autoDials, closeVars,
                   sendSid, sendCb, sendChan, expiryTimer, lastPublish, brokerVars, receiptVars, idleConnects, closedSince>>

(***************************************************************************)
(* Events of the broker's objects                                          *)
(***************************************************************************)
\* the connection emits 'error': handleDisconnect()
ConnErrorEvent(c) ==
    /\ connState[c] = "open"
    /\ connState' = [connState EXCEPT ![c] = "errored"]
    /\ chanState' = [chanState EXCEPT ![c] = IF @ = "open" THEN "closed" ELSE @]
    /\ handleDisconnect
    /\ NotConsuming
    /\ UNCHANGED <<others, maxReconnectAttempts, isConnecting, deliveryCallbacks,
                   connectVars, closeVars, sendVars, consumer, receiptVars,
                   idleConnects, closedSince>>

\* the connection emits 'close': handleDisconnect()
ConnCloseEvent(c) ==
    /\ connState[c] \in {"open", "closing", "errored"}
    /\ connState' = [connState EXCEPT ![c] = IF @ = "closing" THEN "ended" ELSE "closed"]
    /\ chanState' = [chanState EXCEPT ![c] = IF @ = "open" THEN "closed" ELSE @]
    /\ handleDisconnect
    /\ NotConsuming
    /\ UNCHANGED <<others, maxReconnectAttempts, isConnecting, deliveryCallbacks,
                   connectVars, closeVars, sendVars, consumer, receiptVars,
                   idleConnects, closedSince>>

\* the channel emits 'error' or 'close': both handlers only log
ChannelEvent(c) ==
    /\ chanState[c] = "open"
    /\ chanState' = [chanState EXCEPT ![c] = "closed"]
    /\ NotConsuming
    /\ UNCHANGED <<others, maxReconnectAttempts, senderFields, connectVars, closeVars,
                   sendVars, connState, consumer, receiptVars, idleConnects,
                   closedSince>>

(***************************************************************************)
(* close()                                                                 *)
(***************************************************************************)
\* close() from "if (this.connectionModel)" on: the connection's close() is
\* called, or nothing is left to close and isConnected is cleared
CloseConnectionPart ==
    IF connectionModel # 0
    THEN /\ closePc' = "connectionClose"
         /\ closeObj' = connectionModel
         /\ connState' = [connState EXCEPT ![connectionModel] =
                              IF @ = "open" THEN "closing" ELSE @]
         /\ UNCHANGED <<isConnected, closedSince>>
    ELSE /\ closePc' = "idle"
         /\ closeObj' = 0
         /\ isConnected' = FALSE
         /\ closedSince' = TRUE
         /\ UNCHANGED connState

\* close() is called: the timer and the callbacks are cleared, then the channel's
\* close() is called, if there is a channel
Close ==
    /\ closePc = "idle"
    /\ reconnectTimer' = FALSE
    /\ pendingTimers' = IF reconnectTimer THEN pendingTimers - 1 ELSE pendingTimers
    /\ deliveryCallbacks' = NoCallbacks
    /\ IF channel # 0
       THEN /\ closePc' = "channelClose"
            /\ closeObj' = channel
            /\ UNCHANGED <<isConnected, connState, closedSince>>
       ELSE CloseConnectionPart
    /\ NotConsuming
    /\ UNCHANGED <<others, maxReconnectAttempts, isConnecting, reconnectAttempts, channel,
                   connectionModel, connectVars, sendVars, chanState, consumer,
                   receiptVars, idleConnects>>

\* "await this.channel.close()" resolves
CloseChannelOk ==
    /\ closePc = "channelClose"
    /\ chanState[closeObj] = "open"
    /\ chanState' = [chanState EXCEPT ![closeObj] = "closed"]
    /\ channel' = 0
    /\ CloseConnectionPart
    /\ NotConsuming
    /\ UNCHANGED <<others, maxReconnectAttempts, isConnecting, reconnectAttempts,
                   reconnectTimer, pendingTimers, connectionModel, deliveryCallbacks, connectVars,
                   sendVars, consumer, receiptVars, idleConnects>>

\* "await this.connectionModel.close()" resolves
CloseConnectionOk ==
    /\ closePc = "connectionClose"
    /\ connState[closeObj] \in {"closing", "ended"}
    /\ connectionModel' = 0
    /\ isConnected' = FALSE
    /\ closePc' = "idle"
    /\ closeObj' = 0
    /\ closedSince' = TRUE
    /\ NotConsuming
    /\ UNCHANGED <<others, maxReconnectAttempts, isConnecting, reconnectAttempts,
                   reconnectTimer, pendingTimers, channel, deliveryCallbacks, connectVars,
                   sendVars, brokerVars, receiptVars, idleConnects>>

\* the channel's or the connection's close() rejects: the catch block only logs
CloseFail ==
    /\ closePc \in {"channelClose", "connectionClose"}
    /\ closePc' = "idle"
    /\ closeObj' = 0
    /\ closedSince' = TRUE
    /\ NotConsuming
    /\ UNCHANGED <<others, maxReconnectAttempts, senderFields, connectVars, sendVars,
                   brokerVars, receiptVars, idleConnects>>

(***************************************************************************)
(* sendSMS()                                                               *)
(***************************************************************************)
\* sendSMS(to, text, sid, onDelivery) is called; sid is the correlation id the
\* call works with, the caller's or a generated one.  Ids are opaque: a call
\* uses an id of an earlier call or the next unused one.
SendSMS(s, to, sid, cb) ==
    /\ sendPc[s] = "idle"
    /\ \A r \in Sends : r < s => sendPc[r] # "idle"
    /\ \A i \in Sids : i < sid => \E r \in Sends : sendSid[r] = i
    /\ sendSid' = [sendSid EXCEPT ![s] = sid]
    /\ sendCb' = [sendCb EXCEPT ![s] = cb]
    /\ IF ~validateE164(to)
       THEN /\ sendPc' = [sendPc EXCEPT ![s] = "done"]
            /\ sendResult' = [sendResult EXCEPT ![s] = "invalid"]
            /\ UNCHANGED <<isConnecting, connectVars, sendChan, expiryTimer,
                           lastPublish, deliveryCallbacks, closedSince>>
       ELSE /\ closedSince' = FALSE
            /\ IF ~isConnected /\ ~AlreadyConnected
               THEN /\ StartConnect(s, FALSE)
                    /\ sendPc' = [sendPc EXCEPT ![s] = "awaitConnect"]
                    /\ UNCHANGED <<connConn, sendResult, sendChan, expiryTimer,
                                   lastPublish, deliveryCallbacks>>
               ELSE /\ \E out \in {"sent", "full", "throw"} :
                          SendContinue(s, sid, cb, out)
                    /\ UNCHANGED <<isConnecting, connectVars>>
    /\ NotConsuming
    /\ UNCHANGED <<others, maxReconnectAttempts, isConnected, reconnectAttempts,
                   reconnectTimer, pendingTimers, channel, connectionModel, closeVars, brokerVars,
                   receiptVars, idleConnects>>

\* the result of call s once channel c has emitted 'drain'
ResultAfterDrain(s, c) ==
    IF sendPc[s] = "drainWait" /\ sendChan[s] = c THEN "ok" ELSE sendResult[s]

\* the channel emits 'drain': every call waiting for it on this channel resolves
DrainEvent(c) ==
    /\ chanState[c] = "open"
    /\ \E s \in Sends : sendPc[s] = "drainWait" /\ sendChan[s] = c
    /\ sendResult' = [s \in Sends |-> ResultAfterDrain(s, c)]
    /\ sendPc' = [s \in Sends |->
                    IF sendPc[s] = "drainWait" /\ sendChan[s] = c
                    THEN "done" ELSE sendPc[s]]
    /\ NotConsuming
    /\ UNCHANGED <<others, maxReconnectAttempts, senderFields, connectVars, closeVars,
                   sendSid, sendCb, sendChan, expiryTimer, lastPublish, brokerVars, receiptVars, idleConnects, closedSince>>

MutExpiryKeeps(s) ==
    /\ expiryTimer[s]
    /\ expiryTimer' = [expiryTimer EXCEPT ![s] = FALSE]
    /\ NotConsuming
    /\ UNCHANGED <<others, maxReconnectAttempts, senderFields,
                   connectVars, closeVars, sendPc, sendSid, sendCb, sendResult,
                   sendChan, lastPublish, brokerVars,
                   receiptVars, idleConnects, closedSince>>

\* the 5 minute timer of call s fires
ExpiryTimerFire(s) ==
    /\ expiryTimer[s]
    /\ expiryTimer' = [expiryTimer EXCEPT ![s] = FALSE]
    /\ deliveryCallbacks' = [deliveryCallbacks EXCEPT ![sendSid[s]] = 0]
    /\ NotConsuming
    /\ UNCHANGED <<others, maxReconnectAttempts, isConnected, isConnecting,
                   reconnectAttempts, reconnectTimer, pendingTimers, channel, connectionModel,
                   connectVars, closeVars, sendPc, sendSid, sendCb, sendResult,
                   sendChan, lastPublish, brokerVars,
                   receiptVars, idleConnects, closedSince>>

(***************************************************************************)
(* The receipt consumer                                                    *)
(***************************************************************************)
MutMalformedAcked(kind, cb, throws) ==
    IF kind = "null" THEN [invoked |-> 0, timer |-> FALSE, answer |-> "none"]
    ELSE IF kind = "malformed" THEN [invoked |-> 0, timer |-> FALSE, answer |-> "ack"]
    ELSE IF cb = 0 THEN [invoked |-> 0, timer |-> FALSE, answer |-> "ack"]
    ELSE IF throws THEN [invoked |-> cb, timer |-> FALSE, answer |-> "nack"]
    ELSE [invoked |-> cb, timer |-> TRUE, answer |-> "ack"]

\* the consumer's callback on a message: the callback it invokes (cb is the one
\* registered for the receipt's sid, 0 for none), whether it sets the 1 minute
\* timer, and what it answers.  A null message returns at once; JSON.parse
\* throws on a malformed one; a callback that throws is caught by the same
\* catch block, before the timer is set.
HandleReceipt(kind, cb, throws) ==
    IF kind = "null" THEN [invoked |-> 0, timer |-> FALSE, answer |-> "none"]
    ELSE IF kind = "malformed" THEN [invoked |-> 0, timer |-> FALSE, answer |-> "nack"]
    ELSE IF cb = 0 THEN [invoked |-> 0, timer |-> FALSE, answer |-> "ack"]
    ELSE IF throws THEN [invoked |-> cb, timer |-> FALSE, answer |-> "nack"]
    ELSE [invoked |-> cb, timer |-> TRUE, answer |-> "ack"]

\* the registry when the consumer's callback returns: the entry it found stays,
\* its removal is left to the 1 minute timer
RegistryAfterReceipt(cbs, sid, found) == cbs

\* this.channel?.ack(msg) and this.channel?.nack(msg, false, true) on a message
\* of channel c: nothing when this.channel is undefined
Answer(c, answer) ==
    IF answer = "none" \/ channel = 0 THEN "none"
    ELSE IF channel = c THEN answer
    ELSE "stray"

\* the consumer's callback runs on a message of channel c, as far as the
\* transport goes; throws: the callback that is invoked throws; cap: the 1 minute
\* timers that may be pending for one sid
ConsumeWithin(cap, c, kind, sid, throws) ==
    /\ consumer[c]
    /\ chanState[c] = "open"
    /\ LET cb == IF kind = "receipt" THEN deliveryCallbacks[sid] ELSE 0
           h == HandleReceipt(kind, cb, throws)
       IN  /\ throws => cb # 0
           /\ h.timer => graceTimers[sid] < cap
           /\ graceTimers' = IF h.timer THEN [graceTimers EXCEPT ![sid] = @ + 1]
                             ELSE graceTimers
           /\ deliveryCallbacks' = RegistryAfterReceipt(deliveryCallbacks, sid, h.timer)
           /\ lastReceipt' = [invoked |-> h.invoked, answer |-> Answer(c, h.answer),
                              kind |-> kind]
    /\ UNCHANGED <<evars, routingVars, processVars, maxReconnectAttempts, isConnected, isConnecting,
                   reconnectAttempts, reconnectTimer, pendingTimers, channel, connectionModel,
                   connectVars, closeVars, sendVars, brokerVars, idleConnects,
                   closedSince>>

Consume(c, kind, sid, throws) == ConsumeWithin(MaxGraceTimers, c, kind, sid, throws)

\* a message arrives on the consumer of channel c, and the callback it invokes
\* is not the AutoResponder's
ReceiptArrive(c, kind, sid, throws) ==
    /\ Consume(c, kind, sid, throws)
    /\ UNCHANGED <<queueVars, dispatchVars>>

\* a 1 minute timer set by a receipt for sid fires
GraceTimerFire(sid) ==
    /\ graceTimers[sid] > 0
    /\ graceTimers' = [graceTimers EXCEPT ![sid] = @ - 1]
    /\ deliveryCallbacks' = [deliveryCallbacks EXCEPT ![sid] = 0]
    /\ NotConsuming
    /\ UNCHANGED <<others, maxReconnectAttempts, isConnected, isConnecting,
                   reconnectAttempts, reconnectTimer, pendingTimers, channel, connectionModel,
                   connectVars, closeVars, sendVars, brokerVars,
                   idleConnects, closedSince>>

\* the connection life cycle alone: no sendSMS call, no receipt
ConnNext ==
    \/ Connect
    \/ ReconnectTimerFire
    \/ \E c \in Conns : DialOk(c)
    \/ DialFail
    \/ CreateChannelOk
    \/ AssertQueueOk
    \/ AssertCallbackQueueOk
    \/ ConsumeOk
    \/ ConnectStepFail
    \/ \E c \in Conns : ConnErrorEvent(c)
    \/ \E c \in Conns : ConnCloseEvent(c)
    \/ \E c \in Conns : ChannelEvent(c)
    \/ Close
    \/ CloseChannelOk
    \/ CloseConnectionOk
    \/ CloseFail

\* sendSMS on a transport that is constructed with maxReconnectAttempts = 1 and
\* whose broker accepts one connection
SendNext ==
    \/ \E s \in Sends, to \in Destinations, sid \in Sids, cb \in BOOLEAN :
          SendSMS(s, to, sid, cb)
    \/ Connect
    \/ ReconnectTimerFire
    \/ DialOk(1)
    \/ DialFail
    \/ CreateChannelOk
    \/ AssertQueueOk
    \/ AssertCallbackQueueOk
    \/ ConsumeOk
    \/ ConnectStepFail
    \/ ConnCloseEvent(1)
    \/ ChannelEvent(1)
    \/ Close
    \/ CloseChannelOk
    \/ CloseConnectionOk
    \/ CloseFail
    \/ DrainEvent(1)
    \/ \E s \in Sends : ExpiryTimerFire(s)
    \/ \E kind \in {"receipt", "malformed", "null"}, sid \in Sids,
             throws \in BOOLEAN :
          ReceiptArrive(1, kind, sid, throws)
    \/ \E sid \in Sids : GraceTimerFire(sid)

\* the first connect() call on a new transport
InitialConnect ==
    /\ reconnectAttempts = 0
    /\ ~isConnecting
    /\ Connect

\* a new transport, one connect() call, and a broker that rejects every attempt
RejectNext ==
    \/ InitialConnect
    \/ ReconnectTimerFire
    \/ DialFail

\* the connection life cycle against a broker that accepts one connection and
\* rejects every later attempt
ReconnectNext ==
    \/ Connect
    \/ ReconnectTimerFire
    \/ DialOk(1)
    \/ DialFail
    \/ CreateChannelOk
    \/ AssertQueueOk
    \/ AssertCallbackQueueOk
    \/ ConsumeOk
    \/ ConnectStepFail
    \/ ConnErrorEvent(1)
    \/ ConnCloseEvent(1)
    \/ Close
    \/ CloseChannelOk
    \/ CloseConnectionOk
    \/ CloseFail

\* the transport after its first connect() call, left to itself: the broker
\* accepts or rejects each attempt and the connection can be lost
RecoverNext ==
    \/ InitialConnect
    \/ ReconnectTimerFire
    \/ \E c \in Conns : DialOk(c)
    \/ DialFail
    \/ CreateChannelOk
    \/ AssertQueueOk
    \/ AssertCallbackQueueOk
    \/ ConsumeOk
    \/ ConnectStepFail
    \/ \E c \in Conns : ConnErrorEvent(c)
    \/ \E c \in Conns : ConnCloseEvent(c)

\* the reconnect timer fires and every request connect() awaits is settled, by
\* success or by failure
ConnectSettles ==
    /\ WF_vars(ReconnectTimerFire)
    /\ WF_vars((\E c \in Conns : DialOk(c)) \/ DialFail)
    /\ WF_vars(CreateChannelOk \/ AssertQueueOk \/ AssertCallbackQueueOk \/ ConsumeOk
               \/ ConnectStepFail)

\* a transport constructed with maxReconnectAttempts = 0, whose connect() and
\* sendSMS() are called while the broker rejects every attempt
NoRetryNext ==
    \/ \E s \in Sends, to \in Destinations, sid \in Sids, cb \in BOOLEAN :
          SendSMS(s, to, sid, cb)
    \/ Connect
    \/ ReconnectTimerFire
    \/ DialFail

(***************************************************************************)
(* RoutingHandler: strings, rules and findMatchingRule                     *)
(***************************************************************************)
UpperCase == <<"A", "B", "C", "D", "E", "F", "G", "H", "I", "J", "K", "L", "M", "N", "O", "P", "Q", "R", "S", "T", "U", "V", "W", "X", "Y", "Z">>
LowerCase == <<"a", "b", "c", "d", "e", "f", "g", "h", "i", "j", "k", "l", "m", "n", "o", "p", "q", "r", "s", "t", "u", "v", "w", "x", "y", "z">>

\* the lower case letter of each upper case letter
LowerOf ==
    [c \in {UpperCase[k] : k \in 1..Len(UpperCase)} |->
        LowerCase[CHOOSE k \in 1..Len(UpperCase) : UpperCase[k] = c]]

\* String.prototype.toLowerCase on the letters A to Z
toLowerCase(s) ==
    [i \in 1..Len(s) |-> IF s[i] \in DOMAIN LowerOf THEN LowerOf[s[i]] ELSE s[i]]

\* String.prototype.includes
includes(s, k) ==
    \E i \in 0..(Len(s) - Len(k)) : SubSeq(s, i + 1, i + Len(k)) = k

\* String.prototype.endsWith and startsWith
endsWith(s, k) == Len(k) <= Len(s) /\ SubSeq(s, Len(s) - Len(k) + 1, Len(s)) = k

startsWith(s, k) == Len(k) <= Len(s) /\ SubSeq(s, 1, Len(k)) = k

WhiteSpace == {" ", "\t", "\n"}

\* String.prototype.trim
trim(s) ==
    LET kept == {i \in 1..Len(s) : s[i] \notin WhiteSpace}
    IN  IF kept = {} THEN <<>>
        ELSE SubSeq(s, CHOOSE i \in kept : \A j \in kept : i <= j,
                       CHOOSE i \in kept : \A j \in kept : j <= i)

urgentKeywords ==
    {<<"u", "r", "g", "e", "n", "t">>,
     <<"e", "m", "e", "r", "g", "e", "n", "c", "y">>,
     <<"9", "1", "1">>,
     <<"h", "e", "l", "p">>,
     <<"a", "s", "a", "p">>,
     <<"c", "r", "i", "t", "i", "c", "a", "l">>}
importantKeywords ==
    {<<"i", "m", "p", "o", "r", "t", "a", "n", "t">>,
     <<"p", "r", "i", "o", "r", "i", "t", "y">>,
     <<"d", "e", "a", "d", "l", "i", "n", "e">>,
     <<"t", "o", "m", "o", "r", "r", "o", "w">>}
spamKeywords ==
    {<<"f", "r", "e", "e">>,
     <<"w", "i", "n">>,
     <<"p", "r", "i", "z", "e">>,
     <<"c", "l", "i", "c", "k", " ", "h", "e", "r", "e">>,
     <<"u", "n", "s", "u", "b", "s", "c", "r", "i", "b", "e">>}
CanYou == <<"c", "a", "n", " ", "y", "o", "u">>
QuestionMark == <<"?">>

\* keywords.some((keyword) => content.includes(keyword))
some(keywords, content) == \E keyword \in keywords : includes(content, keyword)

\* the sender of the custom rule of the tests, and another one
VipSender == "+9999999999"
Senders == {"+1234567890", VipSender}

\* rule.condition(message): "true", "false" or "throws".  The first five are
\* the conditions of initializeDefaultRules; vipSender is a condition on the
\* sender, broken one that throws on every message
Condition(name, msg) ==
    CASE name = "urgentKeywords" ->
            IF some(urgentKeywords, toLowerCase(msg.content)) THEN "true" ELSE "false"
      [] name = "importantKeywords" ->
            IF some(importantKeywords, toLowerCase(msg.content)) THEN "true" ELSE "false"
      [] name = "question" ->
            IF \/ endsWith(trim(msg.content), QuestionMark)
               \/ startsWith(toLowerCase(trim(msg.content)), CanYou)
            THEN "true" ELSE "false"
      [] name = "spamKeywords" ->
            IF some(spamKeywords, toLowerCase(msg.content)) THEN "true" ELSE "false"
      [] name = "catchAll" -> "true"
      [] name = "vipSender" -> IF msg.sender = VipSender THEN "true" ELSE "false"
      [] OTHER -> "throws"

Rule(condition, priority, action, autoResponse) ==
    [condition |-> condition, priority |-> priority, action |-> action,
     autoResponse |-> autoResponse]

CatchAll == Rule("catchAll", "normal", "queue", FALSE)

MutDefaultsSpamFirst ==
    <<Rule("spamKeywords", "low", "ignore", FALSE),
      Rule("urgentKeywords", "urgent", "notify", FALSE),
      Rule("importantKeywords", "high", "notify", FALSE),
      Rule("question", "normal", "queue", FALSE),
      CatchAll>>

\* this.rules after initializeDefaultRules on an empty list
DefaultRules ==
    <<Rule("urgentKeywords", "urgent", "notify", FALSE),
      Rule("importantKeywords", "high", "notify", FALSE),
      Rule("question", "normal", "queue", FALSE),
      Rule("spamKeywords", "low", "ignore", FALSE),
      CatchAll>>

\* the rules passed to addRule: autoResponse tells whether the rule has one
CustomRules ==
    {Rule("vipSender", "high", "notify", FALSE),
     Rule("vipSender", "normal", "auto-respond", TRUE),
     Rule("broken", "low", "ignore", FALSE)}

\* initializeDefaultRules: five this.rules.push calls
initializeDefaultRules(rs) == rs \o DefaultRules

MutResetAppends(rs) == initializeDefaultRules(rs)

\* this.rules = []; this.initializeDefaultRules()
resetRules(rs) == initializeDefaultRules(<<>>)

MutAddAtEnd(rs, rule) == Append(rs, rule)

\* this.rules.splice(this.rules.length - 1, 0, rule)
addRule(rs, rule) ==
    SubSeq(rs, 1, Len(rs) - 1) \o <<rule>> \o SubSeq(rs, Len(rs), Len(rs))

\* what findMatchingRule gives: the rule's decision, or that a condition threw
Matched(rule) ==
    [threw |-> FALSE, priority |-> rule.priority, action |-> rule.action,
     autoResponse |-> rule.autoResponse]

Thrown == [threw |-> TRUE, priority |-> "none", action |-> "none", autoResponse |-> FALSE]

NoDecision == [threw |-> FALSE, priority |-> "none", action |-> "none", autoResponse |-> FALSE]

\* the loop of findMatchingRule from list position i on, and the rule it
\* returns when the loop ends without a match
RECURSIVE FindFrom(_, _, _)
FindFrom(rs, msg, i) ==
    IF i > Len(rs) THEN Matched(CatchAll)
    ELSE LET c == Condition(rs[i].condition, msg)
         IN  IF c = "throws" THEN Thrown
             ELSE IF c = "true" THEN Matched(rs[i])
             ELSE FindFrom(rs, msg, i + 1)

MutFindLastMatch(rs, msg) ==
    LET hits == {i \in 1..Len(rs) : Condition(rs[i].condition, msg) = "true"}
    IN  IF \E i \in 1..Len(rs) : Condition(rs[i].condition, msg) = "throws" THEN Thrown
        ELSE IF hits = {} THEN Matched(CatchAll)
        ELSE Matched(rs[CHOOSE i \in hits : \A j \in hits : j <= i])

MutFindNoCatchAll(rs, msg) ==
    LET hits == {i \in 1..(Len(rs) - 1) : Condition(rs[i].condition, msg) = "true"}
    IN  IF hits = {} /\ ~FindFrom(rs, msg, 1).threw THEN NoDecision
        ELSE FindFrom(rs, msg, 1)

findMatchingRule(rs, msg) == FindFrom(rs, msg, 1)

NoMessage == [sender |-> "", content |-> <<>>]

\* processBatch has not been called
NoBatch ==
    /\ batch = <<>>
    /\ results = <<>>
    /\ procPc = "idle"
    /\ procRow = 0
    /\ procTrail = <<>>

\* a RoutingHandler after its constructor, findMatchingRule not called yet
NewRoutingHandler ==
    /\ rules = initializeDefaultRules(<<>>)
    /\ customAdded = <<>>
    /\ routed = NoMessage
    /\ decision = NoDecision
    /\ NoBatch

\* no QueueManager call so far
NoQueueCall == [op |-> "none", id |-> 0, threw |-> FALSE]

\* a fresh database, and an AutoResponder that has sent nothing
FreshQueue ==
    /\ messages = <<>>
    /\ inserts = 0
    /\ lastQueueCall = NoQueueCall
    /\ messageDbId = [s \in Sends |-> 0]
    /\ dekuResult = [s \in Sends |-> "none"]
    /\ twilioResult = [w \in Twilios |-> "none"]
    /\ smsEnabled = FALSE
    /\ initConnect = "none"

NoPhone ==
    /\ phone = <<>>
    /\ e164Result = "none"
    /\ FreshQueue
    /\ NewRoutingHandler

InitConn == TransportInit(ConfiguredAttempts) /\ NoPhone

InitSend == TransportInit({1}) /\ NoPhone

InitReject == TransportInit(1..MaxConfigured) /\ NoPhone

\* the connection life cycle
SpecConn == InitConn /\ [][ConnNext]_vars

\* the sendSMS calls and the receipts
SpecSend == InitSend /\ [][SendNext]_vars

\* the reconnect loop against a broker that is down
SpecReject == InitReject /\ [][RejectNext]_vars

SpecReconnect == InitConn /\ [][ReconnectNext]_vars

SpecRecover == InitConn /\ [][RecoverNext]_vars /\ ConnectSettles

\* new RabbitMQSender({..., maxReconnectAttempts: 0})
InitNoRetry == TransportInit({0}) /\ NoPhone

SpecNoRetry == InitNoRetry /\ [][NoRetryNext]_vars

(***************************************************************************)
(* validateE164 on bounded strings                                         *)
(***************************************************************************)
\* n times the character d
Run(d, n) == [i \in 1..n |-> d]

\* "+123" and "+123456789012345"
Plus123 == <<"+", "1", "2", "3">>
Plus15Digits == <<"+">> \o <<"1", "2", "3", "4", "5", "6", "7", "8", "9">>
                        \o <<"0", "1", "2", "3", "4", "5">>

\* the strings validateE164 is tried on: an optional "+", a first character, a
\* run of up to MaxDigits - 1 equal digits, and an optional tail
Phones ==
    {<<>>, <<"+">>, Plus123, Plus15Digits}
    \cup { pre \o <<first>> \o Run(d, n) \o suf :
             pre \in {<<>>, <<"+">>},
             first \in {"0", "1", "9", "a"},
             d \in {"0", "5"},
             n \in 0..(MaxDigits - 1),
             suf \in {<<>>, <<"x">>, <<"-", "1">>, <<" ">>, <<"\n">>, <<"+">>} }

InitE164 ==
    /\ TransportInit({1})
    /\ phone \in Phones
    /\ e164Result = "none"
    /\ FreshQueue
    /\ NewRoutingHandler

\* validateE164(phone) is called
Validate ==
    /\ e164Result = "none"
    /\ e164Result' = IF validateE164(phone) THEN "accept" ELSE "reject"
    /\ UNCHANGED <<phone, tvars, queueVars, dispatchVars, routingVars, processVars>>

E164Next ==
    \/ Validate

SpecE164 == InitE164 /\ [][E164Next]_vars

(***************************************************************************)
(* QueueManager: the messages table                                        *)
(***************************************************************************)
\* CHECK(priority IN ('urgent', 'high', 'normal', 'low'))
Priorities == {"urgent", "high", "normal", "low"}
\* CHECK(routing_action IN ('notify', 'queue', 'auto-respond', 'ignore'))
RoutingActions == {"notify", "queue", "auto-respond", "ignore"}
\* CHECK(status IN ('pending', 'processing', 'resolved', 'failed'))
Statuses == {"pending", "processing", "resolved", "failed"}

\* the INSERT of addToQueue: it raises on a priority the table's CHECK rejects
InsertAccepted(priority) == priority \in Priorities

\* the row of INSERT INTO messages (..., priority, status, ..., routing_action, ...)
\* with the status 'pending' that addToQueue passes; the id is the row's position
NewRow(priority, action) ==
    [status |-> "pending", priority |-> priority, routing_action |-> action]

\* the table after addToQueue(message, priority, action, sender)
addToQueue(rows, priority, action) ==
    IF InsertAccepted(priority) THEN Append(rows, NewRow(priority, action)) ELSE rows

\* UPDATE messages SET status = ? WHERE id = ?: the rows it changes
Changes(rows, id) == IF id \in 1..Len(rows) THEN 1 ELSE 0

MutUpdateEveryRow(rows, id, status) ==
    IF Changes(rows, id) = 0 THEN rows
    ELSE [i \in 1..Len(rows) |-> [rows[i] EXCEPT !.status = status]]

MutUpdateResetsPriority(rows, id, status) ==
    IF Changes(rows, id) = 0 THEN rows
    ELSE [rows EXCEPT ![id] = [@ EXCEPT !.status = status, !.priority = "normal"]]

\* the table after updateStatus, whatever the row's status was
updateStatus(rows, id, status) ==
    IF Changes(rows, id) = 0 THEN rows ELSE [rows EXCEPT ![id].status = status]

\* COUNT(*) of the group of a status
Count(rows, status) == Cardinality({i \in 1..Len(rows) : rows[i].status = status})

\* stats.total += row.count over the groups of the result
RECURSIVE Total(_, _)
Total(rows, groups) ==
    IF groups = {} THEN 0
    ELSE LET g == CHOOSE x \in groups : TRUE
         IN  Count(rows, g) + Total(rows, groups \ {g})

MutStatsTotalAssigned(rows) ==
    LET groups == {rows[i].status : i \in 1..Len(rows)}
        bucket(status) == IF status \in groups THEN Count(rows, status) ELSE 0
    IN  [total |-> IF groups = {} THEN 0
                   ELSE Count(rows, CHOOSE x \in groups : TRUE),
         pending |-> bucket("pending"),
         processing |-> bucket("processing"),
         resolved |-> bucket("resolved"),
         failed |-> bucket("failed")]

\* getStats(): one result row per status that occurs (GROUP BY status); a
\* bucket without a group stays 0
getStats(rows) ==
    LET groups == {rows[i].status : i \in 1..Len(rows)}
        bucket(status) == IF status \in groups THEN Count(rows, status) ELSE 0
    IN  [total |-> Total(rows, groups),
         pending |-> bucket("pending"),
         processing |-> bucket("processing"),
         resolved |-> bucket("resolved"),
         failed |-> bucket("failed")]

\* addToQueue(message, priority, action, sender) is called
AddToQueue(priority, action) ==
    /\ Len(messages) < MaxRows
    /\ messages' = addToQueue(messages, priority, action)
    /\ inserts' = IF InsertAccepted(priority) THEN inserts + 1 ELSE inserts
    /\ lastQueueCall' = [op |-> "addToQueue",
                         id |-> IF InsertAccepted(priority) THEN Len(messages) + 1
                                ELSE 0,
                         threw |-> ~InsertAccepted(priority)]
    /\ UNCHANGED <<tvars, evars, routingVars, processVars, dispatchVars>>

\* what a call of updateStatus leaves behind: it throws when no row was changed
StatusCall(op, id) == [op |-> op, id |-> id, threw |-> Changes(messages, id) = 0]

\* markProcessing(id) is called
MarkProcessing(id) ==
    /\ messages' = updateStatus(messages, id, "processing")
    /\ lastQueueCall' = StatusCall("markProcessing", id)
    /\ UNCHANGED <<tvars, evars, routingVars, processVars, dispatchVars, inserts>>

\* markResolved(id) is called
MarkResolved(id) ==
    /\ messages' = updateStatus(messages, id, "resolved")
    /\ lastQueueCall' = StatusCall("markResolved", id)
    /\ UNCHANGED <<tvars, evars, routingVars, processVars, dispatchVars, inserts>>

\* markFailed(id) is called
MarkFailed(id) ==
    /\ messages' = updateStatus(messages, id, "failed")
    /\ lastQueueCall' = StatusCall("markFailed", id)
    /\ UNCHANGED <<tvars, evars, routingVars, processVars, dispatchVars, inserts>>

\* the priority and the action addToQueue is called with; 'critical' is no
\* priority of the table
QueueInserts == {<<"normal", "queue">>, <<"urgent", "notify">>, <<"critical", "notify">>}

\* the calls of a QueueManager on a fresh database, made in any order
QueueNext ==
    \/ \E call \in QueueInserts : AddToQueue(call[1], call[2])
    \/ \E id \in RowIds : MarkProcessing(id)
    \/ \E id \in RowIds : MarkResolved(id)
    \/ \E id \in RowIds : MarkFailed(id)

InitQueue == TransportInit({1}) /\ NoPhone

SpecQueue == InitQueue /\ [][QueueNext]_vars

(***************************************************************************)
(* AutoResponder: sendViaDekuSMS and sendViaTwilio with a QueueManager      *)
(***************************************************************************)
MutTrackPending(rows) == addToQueue(rows, "normal", "auto-respond")

\* the table after "messageDbId = addToQueue(text, 'normal', 'auto-respond',
\* to, ...); markProcessing(messageDbId)"
TrackInQueue(rows) ==
    updateStatus(addToQueue(rows, "normal", "auto-respond"), Len(rows) + 1, "processing")

\* the table after the delivery callback of sendViaDekuSMS has run on a receipt
\* of the given status, dbId being the closure's messageDbId at that time
DeliveryCallback(rows, dbId, status) ==
    IF dbId = 0 THEN rows
    ELSE IF status = "delivered" THEN updateStatus(rows, dbId, "resolved")
    ELSE IF status = "failed" THEN updateStatus(rows, dbId, "failed")
    ELSE rows

\* a sendSMS call of sendViaDekuSMS has settled and the code after the await
\* has not run yet: it runs before the event loop takes its next event
ReturnPending(s) == sendPc[s] = "done" /\ dekuResult[s] = "none"

Settled == \A s \in Sends : ~ReturnPending(s)

\* sendViaDekuSMS(message) is called: it calls sendSMS with a fresh sid and
\* its delivery callback
SendViaDekuSMS(s, to) ==
    /\ Settled
    /\ SendSMS(s, to, s, TRUE)

\* sendViaDekuSMS after "await this.rabbitMQSender.sendSMS(...)"
DekuSMSReturn(s) ==
    /\ ReturnPending(s)
    /\ IF sendResult[s] = "ok"
       THEN /\ Len(messages) < MaxRows
            /\ messages' = TrackInQueue(messages)
            /\ inserts' = inserts + 1
            /\ messageDbId' = [messageDbId EXCEPT ![s] = Len(messages) + 1]
            /\ lastQueueCall' = [op |-> "markProcessing", id |-> Len(messages) + 1,
                                 threw |-> FALSE]
            /\ dekuResult' = [dekuResult EXCEPT ![s] = "ok"]
       ELSE /\ dekuResult' = [dekuResult EXCEPT ![s] = "error"]
            /\ UNCHANGED <<queueVars, messageDbId>>
    /\ NotConsuming
    /\ UNCHANGED <<transportState, evars, routingVars, processVars, twilioResult,
                   smsEnabled, initConnect>>

\* the delivery callback of sendViaDekuSMS, if it is the one registered for
\* sid, runs on a receipt {status, sid}
RunDeliveryCallback(sid, status) ==
    /\ LET s == deliveryCallbacks[sid]
           dbId == IF s = 0 THEN 0 ELSE messageDbId[s]
       IN  /\ messages' = DeliveryCallback(messages, dbId, status)
           /\ lastQueueCall' =
                 IF dbId # 0 /\ status = "delivered"
                 THEN [op |-> "markResolved", id |-> dbId, threw |-> FALSE]
                 ELSE IF dbId # 0 /\ status = "failed"
                 THEN [op |-> "markFailed", id |-> dbId, threw |-> FALSE]
                 ELSE lastQueueCall
    /\ UNCHANGED <<inserts, dispatchVars>>

DeliveryReceipt(sid, status) ==
    /\ Settled
    /\ Consume(1, "receipt", sid, FALSE)
    /\ RunDeliveryCallback(sid, status)

\* the same, when up to MaxWindowReceipts receipts of one sid are consumed
\* before the first 1 minute timer fires
WindowReceipt(sid, status) ==
    /\ Settled
    /\ ConsumeWithin(MaxWindowReceipts, 1, "receipt", sid, FALSE)
    /\ RunDeliveryCallback(sid, status)

\* sendViaTwilio(message) is called and messages.create settles: created tells
\* whether the provider accepted the message
SendViaTwilio(w, created) ==
    /\ Settled
    /\ twilioResult[w] = "none"
    /\ IF created
       THEN /\ Len(messages) < MaxRows
            /\ messages' = addToQueue(messages, "normal", "auto-respond")
            /\ inserts' = inserts + 1
            /\ lastQueueCall' = [op |-> "addToQueue", id |-> Len(messages) + 1,
                                 threw |-> FALSE]
            /\ twilioResult' = [twilioResult EXCEPT ![w] = "ok"]
       ELSE /\ twilioResult' = [twilioResult EXCEPT ![w] = "error"]
            /\ UNCHANGED queueVars
    /\ NotConsuming
    /\ UNCHANGED <<transportState, evars, routingVars, processVars, messageDbId,
                   dekuResult, smsEnabled, initConnect>>

\* the AutoResponder on a transport whose broker accepts one connection and
\* does not fail, without close()
DispatchNext ==
    \/ \E s \in Sends, to \in Destinations : SendViaDekuSMS(s, to)
    \/ \E s \in Sends : DekuSMSReturn(s)
    \/ Settled /\ DialOk(1)
    \/ Settled /\ CreateChannelOk
    \/ Settled /\ AssertQueueOk
    \/ Settled /\ AssertCallbackQueueOk
    \/ Settled /\ ConsumeOk
    \/ Settled /\ DrainEvent(1)
    \/ \E s \in Sends : Settled /\ ExpiryTimerFire(s)
    \/ \E sid \in Sids, status \in {"sent", "delivered", "failed"} :
          DeliveryReceipt(sid, status)
    \/ \E sid \in Sids : Settled /\ GraceTimerFire(sid)
    \/ \E w \in Twilios, created \in BOOLEAN : SendViaTwilio(w, created)

SpecDispatch == InitSend /\ [][DispatchNext]_vars

(***************************************************************************)
(* RoutingHandler: addRule, resetRules and findMatchingRule on one message *)
(***************************************************************************)
\* the pieces the message contents are made of
Words ==
    {<<>>,
     <<"h", "e", "l", "l", "o">>,
     <<"U", "R", "G", "E", "N", "T">>,
     <<"h", "e", "l", "p", "f", "u", "l">>,
     <<"I", "m", "p", "o", "r", "t", "a", "n", "t">>,
     <<"f", "r", "e", "e">>,
     <<"C", "a", "n", " ", "y", "o", "u">>}

\* the contents findMatchingRule is tried on: two pieces, with and without
\* white space before them and a question mark after them
Contents ==
    { pre \o a \o <<" ">> \o b \o suf :
        pre \in {<<>>, <<" ">>},
        a \in Words,
        b \in Words,
        suf \in {<<>>, <<"?", " ">>, <<"?", "!">>} }
    \cup {<<>>}

Messages == [sender : Senders, content : Contents]

\* addRule(rule) is called
AddRule(rule) ==
    /\ Len(customAdded) < MaxCustom
    /\ rules' = addRule(rules, rule)
    /\ customAdded' = Append(customAdded, rule)
    /\ decision' = NoDecision
    /\ UNCHANGED <<routed, tvars, evars, queueVars, dispatchVars, processVars>>

\* resetRules() is called
ResetRules ==
    /\ rules' = resetRules(rules)
    /\ customAdded' = <<>>
    /\ decision' = NoDecision
    /\ UNCHANGED <<routed, tvars, evars, queueVars, dispatchVars, processVars>>

\* findMatchingRule(routed) is called
FindMatchingRule ==
    /\ decision' = findMatchingRule(rules, routed)
    /\ UNCHANGED <<rules, customAdded, routed, tvars, evars, queueVars, dispatchVars,
                   processVars>>

RoutingNext ==
    \/ \E rule \in CustomRules : AddRule(rule)
    \/ ResetRules
    \/ FindMatchingRule

\* a RoutingHandler after its constructor, and the message it is asked about
InitRouting ==
    /\ TransportInit({1})
    /\ phone = <<>>
    /\ e164Result = "none"
    /\ FreshQueue
    /\ rules = initializeDefaultRules(<<>>)
    /\ customAdded = <<>>
    /\ routed \in Messages
    /\ decision = NoDecision
    /\ NoBatch

SpecRouting == InitRouting /\ [][RoutingNext]_vars

(***************************************************************************)
(* RoutingHandler: process and processBatch                                *)
(***************************************************************************)
\* an auto-respond rule without autoResponse, which the RoutingRule type allows
TemplateLess == Rule("vipSender", "low", "auto-respond", FALSE)

\* the rule lists process is run with: the default rules, alone or with one
\* custom rule
ProcessRules == CustomRules \cup {TemplateLess}

\* the messages of the batches
ProcessMessages ==
    {[sender |-> "+1234567890", content |-> c] :
        c \in {<<"U", "R", "G", "E", "N", "T">>,
              <<"f", "r", "e", "e">>,
              <<"h", "e", "l", "l", "o">>}}
    \cup {[sender |-> VipSender, content |-> <<"h", "e", "l", "l", "o">>]}

\* the arrays processBatch is called with
RECURSIVE Batches(_)
Batches(n) ==
    IF n = 0 THEN {<<>>}
    ELSE Batches(n - 1)
         \cup {Append(b, m) : b \in {x \in Batches(n - 1) : Len(x) = n - 1},
                              m \in ProcessMessages}

\* the result of the catch block of process: error stands for error.message
\* and tells what threw; statuses are the statuses the row has had
ErrorResult(cause, trail) ==
    [messageId |-> -1, action |-> "queue", priority |-> "normal",
     notified |-> FALSE, responded |-> FALSE, error |-> cause, statuses |-> trail]

\* the result process returns at the end of its try block
Result(id, d, notified, responded, trail) ==
    [messageId |-> id, action |-> d.action, priority |-> d.priority,
     notified |-> notified, responded |-> responded, error |-> "none",
     statuses |-> trail]

MutSettleAlwaysResolved(sent) == "resolved"

\* markResolved when the notification or the response was sent, else markFailed
SettleStatus(sent) == IF sent THEN "resolved" ELSE "failed"

\* process awaits a send for the actions whose block marks the row processing
Awaits(d) ==
    IF d.action = "notify" THEN "notify"
    ELSE IF d.action = "auto-respond" /\ d.autoResponse THEN "respond"
    ELSE "none"

MutStopAtError(b, rs) ==
    Len(rs) = Len(b) \/ (rs # <<>> /\ rs[Len(rs)].error # "none")

\* the for loop of processBatch has no message left
BatchDone(b, rs) == Len(rs) = Len(b)

\* process(message) has returned r: processBatch pushes it and starts its delay
Returned(r) ==
    /\ results' = Append(results, r)
    /\ procPc' = "delay"
    /\ procRow' = 0
    /\ procTrail' = <<>>

\* process(message) is called on the next message of the batch and runs to its
\* first await or to its end; insertFails and updateFails: the INSERT, or the
\* UPDATE that follows it, raises a storage error
BeginItem(insertFails, updateFails) ==
    LET msg == batch[Len(results) + 1]
        d == findMatchingRule(rules, msg)
        id == Len(messages) + 1
        threw(op, row) == [op |-> op, id |-> row, threw |-> TRUE]
        done(op, row) == [op |-> op, id |-> row, threw |-> FALSE]
    IN  /\ routed' = msg
        /\ decision' = d
        /\ IF d.threw
           THEN /\ Returned(ErrorResult("predicate", <<>>))
                /\ UNCHANGED queueVars
           ELSE IF insertFails \/ ~InsertAccepted(d.priority)
           THEN /\ Returned(ErrorResult("storage", <<>>))
                /\ lastQueueCall' = threw("addToQueue", 0)
                /\ UNCHANGED <<messages, inserts>>
           ELSE /\ Len(messages) < MaxRows
                /\ inserts' = inserts + 1
                /\ IF Awaits(d) # "none"
                   THEN IF updateFails
                        THEN /\ messages' = addToQueue(messages, d.priority, d.action)
                             /\ lastQueueCall' = threw("markProcessing", id)
                             /\ Returned(ErrorResult("storage", <<"pending">>))
                        ELSE /\ messages' = updateStatus(addToQueue(messages, d.priority, d.action),
                                                         id, "processing")
                             /\ lastQueueCall' = done("markProcessing", id)
                             /\ procPc' = Awaits(d)
                             /\ procRow' = id
                             /\ procTrail' = <<"pending", "processing">>
                             /\ UNCHANGED results
                   ELSE IF d.action = "ignore"
                   THEN IF updateFails
                        THEN /\ messages' = addToQueue(messages, d.priority, d.action)
                             /\ lastQueueCall' = threw("markResolved", id)
                             /\ Returned(ErrorResult("storage", <<"pending">>))
                        ELSE /\ messages' = updateStatus(addToQueue(messages, d.priority, d.action),
                                                         id, "resolved")
                             /\ lastQueueCall' = done("markResolved", id)
                             /\ Returned(Result(id, d, FALSE, FALSE,
                                                <<"pending", "resolved">>))
                   ELSE /\ messages' = addToQueue(messages, d.priority, d.action)
                        /\ lastQueueCall' = done("addToQueue", id)
                        /\ Returned(Result(id, d, FALSE, FALSE, <<"pending">>))
    /\ UNCHANGED <<batch, rules, customAdded, tvars, evars, dispatchVars>>

\* processBatch(batch) is called
ProcessBatch(insertFails, updateFails) ==
    /\ procPc = "idle"
    /\ IF BatchDone(batch, results)
       THEN /\ procPc' = "returned"
            /\ UNCHANGED <<batch, results, procRow, procTrail, routingVars, queueVars,
                           tvars, evars, dispatchVars>>
       ELSE BeginItem(insertFails, updateFails)

\* sendNotification or sendTemplatedResponse settles: sent is its result
\* (notified, result.success); updateFails: the UPDATE that follows raises
SendSettles(sent, updateFails) ==
    /\ procPc \in {"notify", "respond"}
    /\ IF updateFails
       THEN /\ lastQueueCall' = [op |-> IF sent THEN "markResolved" ELSE "markFailed",
                                 id |-> procRow, threw |-> TRUE]
            /\ Returned(ErrorResult("storage", procTrail))
            /\ UNCHANGED <<messages, inserts>>
       ELSE /\ messages' = updateStatus(messages, procRow, SettleStatus(sent))
            /\ lastQueueCall' = [op |-> IF sent THEN "markResolved" ELSE "markFailed",
                                 id |-> procRow, threw |-> FALSE]
            /\ Returned(Result(procRow, decision,
                               procPc = "notify" /\ sent, procPc = "respond" /\ sent,
                               Append(procTrail, SettleStatus(sent))))
            /\ UNCHANGED inserts
    /\ UNCHANGED <<batch, routingVars, tvars, evars, dispatchVars>>

\* the 100 ms timer of processBatch fires
DelayElapsed(insertFails, updateFails) ==
    /\ procPc = "delay"
    /\ IF BatchDone(batch, results)
       THEN /\ procPc' = "returned"
            /\ UNCHANGED <<batch, results, procRow, procTrail, routingVars, queueVars,
                           tvars, evars, dispatchVars>>
       ELSE BeginItem(insertFails, updateFails)

ProcessNext ==
    \/ \E insertFails, updateFails \in BOOLEAN : ProcessBatch(insertFails, updateFails)
    \/ \E sent, updateFails \in BOOLEAN : SendSettles(sent, updateFails)
    \/ \E insertFails, updateFails \in BOOLEAN : DelayElapsed(insertFails, updateFails)

\* a RoutingHandler with the default rules, alone or with one custom rule, and
\* the array processBatch is called with
InitProcess ==
    /\ TransportInit({1})
    /\ phone = <<>>
    /\ e164Result = "none"
    /\ FreshQueue
    /\ \E custom \in {<<>>} \cup {<<rule>> : rule \in ProcessRules} :
          /\ customAdded = custom
          /\ rules = IF custom = <<>> THEN initializeDefaultRules(<<>>)
                     ELSE addRule(initializeDefaultRules(<<>>), custom[1])
    /\ routed = NoMessage
    /\ decision = NoDecision
    /\ batch \in Batches(MaxBatch)
    /\ results = <<>>
    /\ procPc = "idle"
    /\ procRow = 0
    /\ procTrail = <<>>

SpecProcess == InitProcess /\ [][ProcessNext]_vars

(***************************************************************************)
(* The callers of the QueueManager together                                *)
(***************************************************************************)
\* process() calls of a RoutingHandler, sends of an AutoResponder and the
\* receipts of the broker, duplicates inside the 1 minute window included
LifecycleNext ==
    \/ \E s \in Sends, to \in Destinations : SendViaDekuSMS(s, to)
    \/ \E s \in Sends : DekuSMSReturn(s)
    \/ Settled /\ DialOk(1)
    \/ Settled /\ CreateChannelOk
    \/ Settled /\ AssertQueueOk
    \/ Settled /\ AssertCallbackQueueOk
    \/ Settled /\ ConsumeOk
    \/ \E s \in Sends : Settled /\ ExpiryTimerFire(s)
    \/ \E sid \in Sids, status \in {"sent", "delivered", "failed"} :
          WindowReceipt(sid, status)
    \/ \E sid \in Sids : Settled /\ GraceTimerFire(sid)
    \/ \E w \in Twilios, created \in BOOLEAN : SendViaTwilio(w, created)
    \/ Settled /\ ProcessBatch(FALSE, FALSE)
    \/ \E sent \in BOOLEAN : Settled /\ SendSettles(sent, FALSE)
    \/ Settled /\ DelayElapsed(FALSE, FALSE)

\* a RoutingHandler with the default rules and the message it is to process,
\* an AutoResponder on a new transport, and a fresh database
InitLifecycle ==
    /\ TransportInit({1})
    /\ phone = <<>>
    /\ e164Result = "none"
    /\ FreshQueue
    /\ rules = initializeDefaultRules(<<>>)
    /\ customAdded = <<>>
    /\ routed = NoMessage
    /\ decision = NoDecision
    /\ batch \in {b \in Batches(1) : Len(b) = 1}
    /\ results = <<>>
    /\ procPc = "idle"
    /\ procRow = 0
    /\ procTrail = <<>>

SpecLifecycle == InitLifecycle /\ [][LifecycleNext]_vars

(***************************************************************************)
(* The outbound transport's contract                                       *)
(***************************************************************************)
\* the fields and the calls in progress of the transport, and the broker's
\* objects: everything but the observations
programState == <<maxReconnectAttempts, senderFields, connPc, connCaller,
                  connConn, closeVars, sendPc, sendSid, sendCb, sendResult,
                  sendChan, expiryTimer, graceTimers, brokerVars>>

\* C1: with maxReconnectAttempts = N >= 1 and a broker that rejects every
\* attempt, the reconnect timer dials exactly N times after the first connect()
\* has failed: never more than N times; as long as fewer than N were made the
\* next one is scheduled; and once the N-th has failed no timer is pending,
\* connected is false and reconnectAttempts is N.
C1_ReconnectBound ==
    /\ autoDials <= maxReconnectAttempts
    /\ (connPc = "idle" /\ reconnectAttempts > 0 /\ autoDials < maxReconnectAttempts)
          => reconnectTimer
    /\ (connPc = "idle" /\ autoDials = maxReconnectAttempts)
          => /\ ~reconnectTimer
             /\ ~isConnected
             /\ reconnectAttempts = maxReconnectAttempts

\* the second of two reconnect attempts has failed
C1_Witness ==
    /\ maxReconnectAttempts = 2
    /\ autoDials = 2
    /\ connPc = "idle"
    /\ ~reconnectTimer

\* C2: while the transport is connected, an 'error' or 'close' event of its
\* connection or of its channel leaves connected = false and a reconnect
\* scheduled.
C2_EventsDisconnect ==
    [][\A c \in Conns :
          (/\ isConnected
           /\ connectionModel = c
           /\ (ConnErrorEvent(c) \/ ConnCloseEvent(c) \/ ChannelEvent(c)))
             => (~isConnected' /\ reconnectTimer')]_vars

\* C3: a connect() call that meets the connected or connecting transport
\* changes nothing: no connection, no channel, no consumer, no field.
C3_ConnectIdempotent ==
    [][(Connect /\ (isConnected \/ isConnecting))
          => UNCHANGED <<programState, lastPublish, autoDials>>]_vars

\* connect() was called on the connected or connecting transport, which is
\* connected with its consumer running
C3_Witness ==
    /\ idleConnects
    /\ isConnected
    /\ \E c \in Conns : channel = c /\ consumer[c]

\* C4: when close() returns, from whatever state it was called in and also when
\* closing the channel or the connection has raised, connected is false and no
\* callback is pending.
C4_CloseDisconnects ==
    [][((Close \/ CloseChannelOk \/ CloseConnectionOk \/ CloseFail)
            /\ closePc' = "idle")
          => (~isConnected' /\ deliveryCallbacks' = NoCallbacks)]_vars

\* C5: once close() has returned, and until connect() or sendSMS() is called,
\* no reconnect timer is pending.
C5_NoReconnectAfterClose == closedSince => ~reconnectTimer

\* the claim's E.164: "+", then 2 to 15 decimal digits, the first of them 1-9,
\* and nothing else
IsE164(p) ==
    /\ Len(p) >= 3
    /\ Len(p) <= 16
    /\ p[1] = "+"
    /\ p[2] \in {"1", "2", "3", "4", "5", "6", "7", "8", "9"}
    /\ \A i \in 3..Len(p) : p[i] \in Digits

\* C6: a sendSMS call whose destination is not E.164 returns the validation
\* failure at once and does nothing else: no connect, no publish, no callback,
\* no timer, in whatever state the transport is.
C6_InvalidDestinationNoEffect ==
    [][\A s \in Sends :
          (sendPc[s] = "idle" /\ sendPc'[s] # "idle")
             => \A to \in Destinations, sid \in Sids, cb \in BOOLEAN :
                   (~IsE164(to) /\ SendSMS(s, to, sid, cb))
                      => /\ sendPc'[s] = "done"
                         /\ sendResult'[s] = "invalid"
                         /\ UNCHANGED <<senderFields, connectVars, closeVars,
                                        brokerVars, receiptVars, expiryTimer,
                                        sendChan, lastPublish>>]_vars

\* a call with a malformed destination has returned on the connected transport
C6_Witness ==
    /\ isConnected
    /\ \E s \in Sends : sendResult[s] = "invalid"

\* C7: validateE164 accepts exactly the strings that are "+" followed by 2 to
\* 15 digits, the first 1-9; it accepts "+123" and "+123456789012345" and
\* rejects the empty string.
C7_E164Exact ==
    /\ e164Result # "none" => (e164Result = "accept" <=> IsE164(phone))
    /\ (phone \in {Plus123, Plus15Digits} => e164Result # "reject")
    /\ (phone = <<>> => e164Result # "accept")

\* "+1" followed by fourteen 5s, the longest number there is, was accepted
C7_Witness ==
    /\ e164Result = "accept"
    /\ Len(phone) = 16

\* C8: when the connect() that a sendSMS call awaits fails, the call returns
\* the not-connected failure; it has published nothing and no callback of it is
\* registered.
C8_ConnectFailureFailsSend ==
    [][\A s \in Sends :
          (/\ sendPc[s] = "awaitConnect"
           /\ connCaller = s
           /\ connPc # "idle"
           /\ connPc' = "idle"
           /\ ~isConnected')
             => /\ sendPc'[s] = "done"
                /\ sendResult'[s] = "notconnected"
                /\ deliveryCallbacks'[sendSid[s]] # s
                /\ UNCHANGED <<lastPublish, deliveryCallbacks, expiryTimer>>]_vars

\* a call with a callback has returned the not-connected failure
C8_Witness ==
    \E s \in Sends :
        /\ sendResult[s] = "notconnected"
        /\ sendCb[s]
        /\ lastPublish = NoPublish

\* a step that may take a registered callback out of the registry, as C9 has
\* it: the 5 minute timer, close(), or the clean-up of a publish that threw
ExpiryOrClose ==
    \/ \E s \in Sends : ExpiryTimerFire(s)
    \/ Close
    \/ \E s \in Sends : sendResult[s] # "error" /\ sendResult'[s] = "error"

C10_CallbackKeptWhileWaiting ==
    \A s \in Sends :
        sendPc[s] = "drainWait"
           => /\ sendResult[s] = "none"
              /\ (sendCb[s] => deliveryCallbacks[sendSid[s]] = s)

\* the step in which call s gets to sendToQueue
Publishes(s) ==
    /\ sendPc[s] \in {"idle", "awaitConnect"}
    /\ sendPc'[s] \in {"drainWait", "done"}
    /\ sendResult'[s] \in {"none", "ok", "error"}

\* C10, amended: when sendToQueue returns false the call does not return: it
\* waits with its callback registered; it leaves the wait only when its channel
\* emits 'drain', and then with success; and while it waits its callback leaves
\* the registry only by close(), by a timer or by another call that uses its id.
C10_Backpressure ==
    [][\A s \in Sends :
          /\ (Publishes(s) /\ lastPublish'.outcome = "full")
                => /\ sendPc'[s] = "drainWait"
                   /\ sendResult'[s] = "none"
                   /\ (sendCb'[s] => deliveryCallbacks'[sendSid'[s]] = s)
          /\ (sendPc[s] = "drainWait" /\ sendPc'[s] # "drainWait")
                => /\ DrainEvent(sendChan[s])
                   /\ sendPc'[s] = "done"
                   /\ sendResult'[s] = "ok"
          /\ (sendPc[s] = "drainWait" /\ sendPc'[s] = "drainWait")
                => sendResult'[s] = "none"
          /\ (/\ sendPc[s] = "drainWait"
              /\ sendCb[s]
              /\ deliveryCallbacks[sendSid[s]] = s
              /\ deliveryCallbacks'[sendSid[s]] # s)
                => \/ Close
                   \/ \E r \in Sends : ExpiryTimerFire(r)
                   \/ GraceTimerFire(sendSid[s])
                   \/ \E r \in Sends : r # s /\ Publishes(r)]_vars

\* a call that had to wait for 'drain' has returned success, its callback
\* still registered
C10_Witness ==
    \E s \in Sends :
        /\ sendPc[s] = "done"
        /\ sendResult[s] = "ok"
        /\ sendChan[s] # 0
        /\ deliveryCallbacks[sendSid[s]] = s


\* C11: when sendToQueue throws, the call returns the failure that carries the
\* exception's message, the callback it registered is out of the registry, and
\* the call is over: it publishes nothing again and its result stays.
C11_PublishErrorFailsSend ==
    [][\A s \in Sends :
          /\ (Publishes(s) /\ lastPublish'.outcome = "throw")
                => /\ sendPc'[s] = "done"
                   /\ sendResult'[s] = "error"
                   /\ (sendCb'[s] => deliveryCallbacks'[sendSid'[s]] = 0)
          /\ sendPc[s] = "done"
                => /\ sendPc'[s] = "done"
                   /\ sendResult'[s] = sendResult[s]
                   /\ ~Publishes(s)]_vars

\* a call with a callback has returned the publish failure on the connected
\* transport and its callback is gone
C11_Witness ==
    \E s \in Sends :
        /\ sendResult[s] = "error"
        /\ sendCb[s]
        /\ lastPublish.outcome = "throw"
        /\ deliveryCallbacks[sendSid[s]] = 0
        /\ isConnected


\* C12: a well-formed receipt whose sid has a registered callback invokes that
\* callback, once, and is acknowledged; one whose sid has none invokes nothing
\* and is acknowledged, not requeued.
C12_ReceiptCorrelation ==
    [][lastReceipt'.kind = "receipt"
          => \A sid \in Sids, throws \in BOOLEAN :
                ReceiptArrive(1, "receipt", sid, throws)
                   => /\ lastReceipt'.invoked = deliveryCallbacks[sid]
                      /\ lastReceipt'.answer = "ack"]_vars


\* C13: a message whose payload cannot be parsed is negatively acknowledged
\* with requeue, is not acknowledged, invokes no callback and leaves the
\* registry and its timers as they are.
C13_MalformedRequeued ==
    [][lastReceipt'.kind = "malformed"
          => /\ lastReceipt'.answer = "nack"
             /\ lastReceipt'.invoked = 0
             /\ UNCHANGED <<deliveryCallbacks, graceTimers, expiryTimer>>]_vars

\* a malformed message was requeued while a callback is registered
C13_Witness ==
    /\ lastReceipt.kind = "malformed"
    /\ lastReceipt.answer = "nack"
    /\ \E sid \in Sids : deliveryCallbacks[sid] # 0


\* the timers of the event loop fire
TimersFire ==
    /\ \A s \in Sends : WF_vars(ExpiryTimerFire(s))
    /\ \A sid \in Sids : WF_vars(GraceTimerFire(sid))

\* sendSMS calls, receipts, timers and close() on a transport whose broker
\* accepts one connection and does not fail
RegistryNext ==
    \/ \E s \in Sends, to \in Destinations, sid \in Sids, cb \in BOOLEAN :
          SendSMS(s, to, sid, cb)
    \/ DialOk(1)
    \/ CreateChannelOk
    \/ AssertQueueOk
    \/ AssertCallbackQueueOk
    \/ ConsumeOk
    \/ Close
    \/ CloseChannelOk
    \/ CloseConnectionOk
    \/ DrainEvent(1)
    \/ \E s \in Sends : ExpiryTimerFire(s)
    \/ \E kind \in {"receipt", "malformed", "null"}, sid \in Sids,
             throws \in BOOLEAN :
          ReceiptArrive(1, kind, sid, throws)
    \/ \E sid \in Sids : GraceTimerFire(sid)

\* the life of the registry's entries, on an event loop that keeps running
SpecRegistry == InitSend /\ [][RegistryNext]_vars /\ TimersFire

\* C14: every registered callback is removed from the registry in the end, and
\* once the calls have stopped the registry is empty for good.
C14_CallbacksRemoved ==
    /\ \A sid \in Sids : (deliveryCallbacks[sid] # 0) ~> (deliveryCallbacks[sid] = 0)
    /\ <>[](deliveryCallbacks = NoCallbacks)

\* the callback of a call that was published is gone, by its 5 minute timer,
\* with no receipt for it and no close()
C14_Witness ==
    \E s \in Sends :
        /\ sendCb[s]
        /\ sendResult[s] = "ok"
        /\ ~expiryTimer[s]
        /\ graceTimers[sendSid[s]] = 0
        /\ deliveryCallbacks[sendSid[s]] = 0
        /\ isConnected

\* C15: after a first matching receipt the callback stays registered for the
\* 1 minute window: a receipt with the same sid consumed while that timer is
\* pending invokes the callback again and is acknowledged, and the callback
\* stays; a receipt consumed once the timer has fired and the entry is gone
\* invokes nothing and is acknowledged like one with an unknown sid.
C15_GraceWindow ==
    [][lastReceipt'.kind = "receipt"
          => \A sid \in Sids, throws \in BOOLEAN :
                ReceiptArrive(1, "receipt", sid, throws)
                   => /\ graceTimers[sid] > 0
                         => /\ lastReceipt'.invoked # 0
                            /\ lastReceipt'.answer = "ack"
                            /\ deliveryCallbacks'[sid] = deliveryCallbacks[sid]
                      /\ (graceTimers[sid] = 0 /\ deliveryCallbacks[sid] = 0)
                         => /\ lastReceipt'.invoked = 0
                            /\ lastReceipt'.answer = "ack"]_vars


C17_ReceiptUpdatesRow ==
    [][lastReceipt'.kind = "receipt"
          => \A s \in Sends :
                (dekuResult[s] = "ok" /\ expiryTimer[s])
                   => /\ DeliveryReceipt(s, "delivered")
                         => messages'[messageDbId[s]].status = "resolved"
                      /\ DeliveryReceipt(s, "failed")
                         => messages'[messageDbId[s]].status = "failed"]_vars


\* C18: a sendViaTwilio call whose provider call succeeded inserts one row,
\* whose status is neither pending nor processing; one whose provider call
\* failed returns an error and inserts no row.
C18_TwilioRowResolved ==
    [][\A w \in Twilios, created \in BOOLEAN :
          (twilioResult[w] = "none" /\ SendViaTwilio(w, created))
             => IF created
                THEN /\ twilioResult'[w] = "ok"
                     /\ Len(messages') = Len(messages) + 1
                     /\ messages'[Len(messages')].status \notin {"pending", "processing"}
                ELSE /\ twilioResult'[w] = "error"
                     /\ messages' = messages]_vars

\* C19: after any calls of addToQueue, markProcessing, markResolved and
\* markFailed, failed ones included, the total of getStats() is the sum of its
\* four buckets and is the number of inserts that have succeeded.
C19_StatsTotal ==
    LET stats == getStats(messages)
    IN  /\ stats.total = stats.pending + stats.processing + stats.resolved + stats.failed
        /\ stats.total = inserts

\* three rows in three different states, after a call that threw
C19_Witness ==
    /\ inserts = MaxRows
    /\ lastQueueCall.threw
    /\ getStats(messages).pending > 0
    /\ getStats(messages).resolved > 0
    /\ getStats(messages).failed > 0


\* C20: a row whose status is resolved or failed never becomes pending or
\* processing again, and no call sets a status back to pending.
C20_ForwardOnly ==
    [][\A id \in 1..Len(messages) :
          /\ messages[id].status \in {"resolved", "failed"}
                => messages'[id].status \notin {"pending", "processing"}
          /\ messages[id].status # "pending" => messages'[id].status # "pending"]_vars



\* C21: markProcessing, markResolved and markFailed on an id that has no row
\* throw and leave the rows and the statistics as they are; on an id that has
\* a row they set that row's status, leave the other rows alone and do not
\* throw.
C21_UpdateOrNotFound ==
    [][\A id \in RowIds :
          \A call \in {<<"markProcessing", "processing">>, <<"markResolved", "resolved">>,
                       <<"markFailed", "failed">>} :
             (\/ call[1] = "markProcessing" /\ MarkProcessing(id)
              \/ call[1] = "markResolved" /\ MarkResolved(id)
              \/ call[1] = "markFailed" /\ MarkFailed(id))
                => IF id \in 1..Len(messages)
                   THEN /\ ~lastQueueCall'.threw
                        /\ Len(messages') = Len(messages)
                        /\ messages'[id].status = call[2]
                        /\ \A other \in 1..Len(messages) :
                              other # id => messages'[other] = messages[other]
                   ELSE /\ lastQueueCall'.threw
                        /\ messages' = messages
                        /\ getStats(messages') = getStats(messages)
                        /\ inserts' = inserts]_vars

\* markResolved has thrown on an id without a row, the table holding rows of
\* different statuses
C21_Witness ==
    /\ lastQueueCall.op = "markResolved"
    /\ lastQueueCall.threw
    /\ lastQueueCall.id > Len(messages)
    /\ \E a, b \in 1..Len(messages) : messages[a].status = "processing" /\ messages[b].status = "failed"



\* the conditions of the list are functions of the message: none throws on it
Pure(rs, msg) == \A i \in 1..Len(rs) : Condition(rs[i].condition, msg) # "throws"

\* C22: after any addRule and resetRules calls, findMatchingRule gives a
\* decision with a priority and an action for every message, the empty one
\* included, and gives {normal, queue} when no rule before the last one
\* matches; the conditions being functions of the message, as the routing
\* engine's contract has them.
C22_RoutingTotal ==
    LET d == findMatchingRule(rules, routed)
    IN  /\ decision \in {NoDecision, d}
        /\ Pure(rules, routed)
              => /\ ~d.threw
                 /\ d.priority \in Priorities
                 /\ d.action \in RoutingActions
                 /\ (\A i \in 1..(Len(rules) - 1) :
                        Condition(rules[i].condition, routed) = "false")
                       => d.priority = "normal" /\ d.action = "queue"

\* the empty message got {normal, queue} from a list with custom rules
C22_Witness ==
    /\ routed.content = <<>>
    /\ customAdded # <<>>
    /\ Pure(rules, routed)
    /\ decision.priority = "normal"
    /\ decision.action = "queue"


\* C23: the decision is that of the rule at the smallest list position among
\* the rules whose condition is true for the message.
C23_FirstMatchWins ==
    LET d == findMatchingRule(rules, routed)
    IN  /\ decision \in {NoDecision, d}
        /\ \A i \in 1..Len(rules) :
              (/\ Condition(rules[i].condition, routed) = "true"
               /\ \A j \in 1..(i - 1) : Condition(rules[j].condition, routed) = "false")
                 => /\ d.priority = rules[i].priority
                    /\ d.action = rules[i].action
                    /\ ~d.threw

\* a message of the custom rule's sender got the decision of the spam rule,
\* which stands before the custom rule
C23_Witness ==
    /\ routed.sender = VipSender
    /\ \E i \in 1..Len(rules) :
          rules[i].condition = "vipSender" /\ rules[i].action = "notify"
    /\ decision.priority = "low"
    /\ decision.action = "ignore"


\* C24: the rule list is the four built-in rules, then the rules added since
\* the last resetRules in the order of the addRule calls, then the catch-all
\* rule; with no rule added since resetRules it is the five built-in rules.
C24_RuleListShape ==
    /\ Len(rules) = Len(customAdded) + 5
    /\ \A i \in 1..4 : rules[i] = DefaultRules[i]
    /\ \A i \in 1..Len(customAdded) : rules[4 + i] = customAdded[i]
    /\ rules[Len(rules)] = CatchAll
    /\ rules[Len(rules)] = DefaultRules[5]
    /\ customAdded = <<>> => rules = DefaultRules

\* two different custom rules stand between the built-in rules and the
\* catch-all
C24_Witness ==
    /\ Len(customAdded) = MaxCustom
    /\ customAdded[1] # customAdded[2]
    /\ rules[5] = customAdded[1]


\* a and b are the same letter, in either case
CasePairs ==
    {<<UpperCase[k], LowerCase[k]>> : k \in 1..Len(UpperCase)}
    \cup {<<LowerCase[k], UpperCase[k]>> : k \in 1..Len(UpperCase)}

SameLetter(a, b) == a = b \/ <<a, b>> \in CasePairs

\* the content contains one of the keywords, in any case
HasKeyword(content, keywords) ==
    \E keyword \in keywords : \E i \in 0..(Len(content) - Len(keyword)) :
        \A j \in 1..Len(keyword) : SameLetter(content[i + j], keyword[j])

\* the content ends with "?" or starts with "can you", white space at its
\* ends not counting
QuestionShaped(content) ==
    \/ \E i \in 1..Len(content) :
          /\ content[i] = "?"
          /\ \A j \in (i + 1)..Len(content) : content[j] \in WhiteSpace
    \/ \E i \in 0..(Len(content) - Len(CanYou)) :
          /\ \A j \in 1..i : content[j] \in WhiteSpace
          /\ \A j \in 1..Len(CanYou) : SameLetter(content[i + j], CanYou[j])

MatchedFor(i) == findMatchingRule(rules, batch[i])

C27_BatchIsolation ==
    /\ Len(results) <= Len(batch)
    /\ procPc = "returned" => Len(results) = Len(batch)
    /\ \A i \in 1..Len(results) :
          LET r == results[i]
              d == MatchedFor(i)
          IN  /\ r.error = "predicate" <=> d.threw
              /\ r.error = "none"
                 => /\ r.action = d.action
                    /\ r.priority = d.priority
                    /\ r.messageId \in 1..Len(messages)
                    /\ r.notified => messages[r.messageId].status = "resolved"
              /\ r.error # "none" => r.messageId = -1 /\ ~r.notified /\ ~r.responded

C27_Witness ==
    /\ procPc = "returned"
    /\ Len(batch) = MaxBatch
    /\ results[1].error = "predicate"
    /\ results[MaxBatch].error = "none"
    /\ results[MaxBatch].notified


\* C28: when the insert or a status update raises during process(), the result
\* carries an error and its priority and action are still those of the rule
\* that matched the message
C28_DecisionKeptOnStorageError ==
    \A i \in 1..Len(results) :
        results[i].error = "storage"
        => /\ results[i].action = MatchedFor(i).action
           /\ results[i].priority = MatchedFor(i).priority


\* a step in which a connect() call ends in its catch block
ConnectFails == connPc # "idle" /\ connPc' = "idle" /\ ~isConnected'

\* C29 as stated: every failed connect() leaves exactly one reconnect attempt
\* scheduled, and never more than one reconnect timer is pending
C29_FailedConnectSchedulesOne ==
    [][/\ pendingTimers' <= 1
       /\ ConnectFails => pendingTimers' = 1]_vars

\* C29: a failed connect() schedules exactly one reconnect attempt when no timer
\* is pending and reconnectAttempts is below the bound, and none otherwise; the
\* sendSMS call that awaited it gets the connection error; at every moment at
\* most one reconnect timer is pending, the one this.reconnectTimer holds, also
\* after an error and a close event of one connection and after a connect that
\* failed while a timer was pending
C29_OneReconnectTimer ==
    [][/\ pendingTimers' = (IF reconnectTimer' THEN 1 ELSE 0)
       /\ ConnectFails
          => /\ pendingTimers' - pendingTimers =
                   (IF ~reconnectTimer /\ reconnectAttempts < MaxAttempts
                    THEN 1 ELSE 0)
             /\ reconnectAttempts' - reconnectAttempts = pendingTimers' - pendingTimers
             /\ connCaller # 0 => sendResult'[connCaller] = "notconnected"]_vars

\* the first connect() has failed and its one reconnect attempt is scheduled
C29_Witness ==
    /\ connPc = "idle"
    /\ connState[1] = "none"
    /\ reconnectAttempts = 1
    /\ reconnectTimer
    /\ pendingTimers = 1


\* C30: a transport configured with maxReconnectAttempts = 0 does not retry:
\* whatever connect() or sendSMS() call failed, no reconnect timer is pending
\* and reconnectAttempts is 0
C30_ZeroMeansNoRetry ==
    maxReconnectAttempts = 0 => (reconnectAttempts = 0 /\ pendingTimers = 0)


\* C32: a row's priority and routing_action are those of the routing decision
\* process() inserted it with, and no later step changes them: markProcessing,
\* markResolved and markFailed change only the status of the row they are
\* called on, and every other row is left as it was
C32_DecisionColumnsFixed ==
    [][/\ Len(messages') >= Len(messages)
       /\ \A id \in 1..Len(messages) :
             /\ messages'[id].priority = messages[id].priority
             /\ messages'[id].routing_action = messages[id].routing_action
             /\ id # lastQueueCall'.id => messages'[id] = messages[id]
       /\ Len(messages') > Len(messages)
          => /\ Len(messages') = Len(messages) + 1
             /\ messages'[Len(messages')].priority =
                   findMatchingRule(rules, routed').priority
             /\ messages'[Len(messages')].routing_action =
                   findMatchingRule(rules, routed').action]_vars

\* an urgent row has been through markProcessing and markFailed while a row of
\* another decision is in the table
C32_Witness ==
    \E a, b \in 1..Len(messages) :
        /\ messages[a] = [status |-> "failed", priority |-> "urgent",
                          routing_action |-> "notify"]
        /\ messages[b].priority # "urgent"
        /\ messages[b].status = "resolved"


\* C38: a terminal status is final: no step takes a row from resolved to failed
\* or from failed to resolved, whatever receipts are consumed for its send
C38_TerminalIsFinal ==
    [][\A id \in 1..Len(messages) :
          /\ messages[id].status = "resolved" => messages'[id].status # "failed"
          /\ messages[id].status = "failed" => messages'[id].status # "resolved"]_vars


\* the status changes of the forward-only lifecycle
Forward(from, to) ==
    \/ to = from
    \/ from = "pending" /\ to \in {"processing", "resolved", "failed"}
    \/ from = "processing" /\ to \in {"resolved", "failed"}

\* C31: over the process() calls, the dispatcher's sends and the receipts, every
\* row's status history is pending, then optionally processing, then optionally
\* resolved or failed: every change of a row's status goes forward
C31_CallersForwardOnly ==
    [][\A id \in 1..Len(messages) :
          Forward(messages[id].status, messages'[id].status)]_vars


\* C40: every non-null message consumed from the callback queue is settled
\* exactly once, and it is acknowledged if and only if its payload parsed, also
\* when the delivery callback raises
C40_SettledOnceByParse ==
    lastReceipt.kind \in {"receipt", "malformed"}
    => /\ lastReceipt.answer \in {"ack", "nack"}
       /\ lastReceipt.answer = "ack" <=> lastReceipt.kind = "receipt"


\* isReady(): this.isConnected && !!this.channel
isReady == isConnected /\ channel # 0

\* C33: whenever getStatus().connected is true, isReady() is true, under every
\* interleaving of the steps of connect() with the connection's error and close
\* events, the reconnect timer and close()
C33_ConnectedImpliesReady == isConnected => isReady


\* call s hands its envelope to sendToQueue in this step and sendToQueue takes it
TakesEnvelope(s) ==
    /\ sendPc[s] \in {"idle", "awaitConnect"}
    /\ sendPc'[s] = "drainWait" \/ sendResult'[s] = "ok"

\* C34: send() publishes an envelope only while the transport is Connected: a
\* send() issued while a connect() is in progress does not publish on the
\* channel before the queues are asserted and the consumer is started
C34_PublishOnlyConnected ==
    [][\A s \in Sends : TakesEnvelope(s) => (isConnected' /\ connPc' = "idle")]_vars


\* sendSMS calls, receipts, timers, close() and the loss of the connection, on
\* a broker that accepts one connection
ReturnNext ==
    \/ RegistryNext
    \/ DialFail
    \/ ConnectStepFail
    \/ CloseFail
    \/ ReconnectTimerFire
    \/ ConnCloseEvent(1)

\* every request the transport awaits is settled, by success or by failure,
\* and an open channel whose buffer was full emits 'drain'
BrokerAnswers ==
    /\ WF_vars(DialOk(1) \/ DialFail)
    /\ WF_vars(CreateChannelOk \/ AssertQueueOk \/ AssertCallbackQueueOk \/ ConsumeOk
               \/ ConnectStepFail)
    /\ WF_vars(CloseChannelOk \/ CloseConnectionOk \/ CloseFail)
    /\ WF_vars(DrainEvent(1))
    /\ WF_vars(ReconnectTimerFire)

\* the same on an event loop that keeps running and a broker that answers
SpecReturn == InitSend /\ [][ReturnNext]_vars /\ TimersFire /\ BrokerAnswers

\* C35: every send() call returns a result to its caller in the end, also a
\* call that waits for 'drain' when close() is called or the connection is lost
C35_SendReturns ==
    \A s \in Sends : (sendPc[s] # "idle") ~> (sendPc[s] = "done")


\* the transport is Connected with a usable channel and a reset counter
Recovered == isReady /\ reconnectAttempts = 0

\* the reconnect bound is exhausted: the transport has given up
Exhausted ==
    /\ ~isConnected
    /\ ~reconnectTimer
    /\ connPc = "idle"
    /\ reconnectAttempts >= MaxAttempts

\* C36: after a connection loss or a failed connect, with no close() and no
\* further call, the transport keeps trying until the bound is exhausted: an
\* attempt the broker accepts takes it back to Connected with a usable channel,
\* and reconnectAttempts is then 0
C36_AutomaticRecovery ==
    /\ (~isConnected /\ reconnectAttempts > 0) ~> (Recovered \/ Exhausted)
    /\ [][(~isConnected /\ isConnected') => (isReady' /\ reconnectAttempts' = 0)]_vars


\* a transport just constructed, for the given sendSMS calls to come; dialling
\* tells whether connect() was called on it at once and waits for the broker
TransportWith(configured, calls, dialling) ==
    /\ maxReconnectAttempts \in configured
    /\ isConnected = FALSE
    /\ isConnecting = dialling
    /\ reconnectAttempts = 0
    /\ reconnectTimer = FALSE
    /\ pendingTimers = 0
    /\ channel = 0
    /\ connectionModel = 0
    /\ deliveryCallbacks = NoCallbacks
    /\ connPc = IF dialling THEN "dial" ELSE "idle"
    /\ connCaller = 0
    /\ connConn = 0
    /\ closePc = "idle"
    /\ closeObj = 0
    /\ sendPc = [s \in calls |-> "idle"]
    /\ sendSid = [s \in calls |-> 0]
    /\ sendCb = [s \in calls |-> FALSE]
    /\ sendResult = [s \in calls |-> "none"]
    /\ sendChan = [s \in calls |-> 0]
    /\ expiryTimer = [s \in calls |-> FALSE]
    /\ graceTimers = [sid \in Sids |-> 0]
    /\ connState = [c \in Conns |-> "none"]
    /\ chanState = [c \in Conns |-> "none"]
    /\ consumer = [c \in Conns |-> FALSE]
    /\ lastPublish = NoPublish
    /\ autoDials = 0
    /\ idleConnects = FALSE
    /\ closedSince = FALSE
    /\ lastReceipt = NoReceipt

(***************************************************************************)
(* AutoResponder in dekusms mode: initializeDekuSMS and sendSMS             *)
(***************************************************************************)
\* the then/catch callbacks of initializeDekuSMS run as soon as its connect()
\* call has settled, before the event loop takes its next event
Chained == ~(initConnect = "pending" /\ connPc = "idle")

\* ".then(() => { this.smsEnabled = true })": the connect() call of
\* initializeDekuSMS has resolved
InitThen ==
    /\ initConnect = "pending"
    /\ connPc = "idle"
    /\ isConnected
    /\ smsEnabled' = TRUE
    /\ initConnect' = "settled"
    /\ NotConsuming
    /\ UNCHANGED <<transportState, evars, queueVars, routingVars, processVars,
                   messageDbId, dekuResult, twilioResult>>

\* ".catch((err) => { this.smsEnabled = false })": it has rejected
InitCatch ==
    /\ initConnect = "pending"
    /\ connPc = "idle"
    /\ ~isConnected
    /\ smsEnabled' = FALSE
    /\ initConnect' = "settled"
    /\ NotConsuming
    /\ UNCHANGED <<transportState, evars, queueVars, routingVars, processVars,
                   messageDbId, dekuResult, twilioResult>>

\* AutoResponder.sendSMS(message) in dekusms mode
ResponderSendSMS(s, to) ==
    /\ Settled
    /\ Chained
    /\ dekuResult[s] = "none"
    /\ IF smsEnabled
       THEN SendViaDekuSMS(s, to)
       ELSE /\ sendPc[s] = "idle"
            /\ dekuResult' = [dekuResult EXCEPT ![s] = "disabled"]
            /\ NotConsuming
            /\ UNCHANGED <<transportState, evars, queueVars, routingVars, processVars,
                           messageDbId, twilioResult, smsEnabled, initConnect>>

\* the AutoResponder, from its constructor on, with a broker that can fail
\* every step of a connect() call
EnableNext ==
    \/ InitThen
    \/ InitCatch
    \/ \E c \in Conns : DialOk(c)
    \/ DialFail
    \/ CreateChannelOk
    \/ AssertQueueOk
    \/ AssertCallbackQueueOk
    \/ ConsumeOk
    \/ ConnectStepFail
    \/ Chained /\ ReconnectTimerFire
    \/ \E s \in Sends, to \in Destinations : ResponderSendSMS(s, to)
    \/ \E s \in Sends : DekuSMSReturn(s)
    \/ \E c \in Conns : Settled /\ Chained /\ DrainEvent(c)
    \/ \E s \in Sends : Settled /\ Chained /\ ExpiryTimerFire(s)

\* the state "new AutoResponder(...)" returns in dekusms mode: the transport
\* is constructed and its connect() call waits for the broker's answer
InitEnable ==
    /\ TransportWith(ConfiguredAttempts, Sends, TRUE)
    /\ phone = <<>>
    /\ e164Result = "none"
    /\ messages = <<>>
    /\ inserts = 0
    /\ lastQueueCall = NoQueueCall
    /\ messageDbId = [s \in Sends |-> 0]
    /\ dekuResult = [s \in Sends |-> "none"]
    /\ twilioResult = [w \in Twilios |-> "none"]
    /\ smsEnabled = FALSE
    /\ initConnect = "pending"
    /\ NewRoutingHandler

SpecEnable == InitEnable /\ [][EnableNext]_vars

\* C37: in dekusms mode, whenever the transport is Connected, also after an
\* automatic reconnect that followed a failed initial connect, sendSMS hands
\* the message to the transport: no call made while the transport is
\* Connected returns 'SMS not configured or disabled'
C37_ChannelFollowsTransport ==
    [][\A s \in Sends :
          (isConnected /\ channel # 0 /\ dekuResult[s] = "none")
              => dekuResult'[s] # "disabled"]_vars


(***************************************************************************)
(* sendSMS calls that share a correlation id                               *)
(***************************************************************************)
\* the sendSMS calls of the behaviours in which calls share a correlation id
MaxReuse == 2

ReuseSends == 1..MaxReuse

\* sendSMS calls with caller-supplied ids, their 5 minute timers, the receipts
\* and the 1 minute timers, on a broker that does not fail and a channel that
\* does not emit 'drain'
ReuseNext ==
    \/ \E s \in ReuseSends, to \in Destinations, sid \in Sids, cb \in BOOLEAN :
          SendSMS(s, to, sid, cb)
    \/ DialOk(1)
    \/ CreateChannelOk
    \/ AssertQueueOk
    \/ AssertCallbackQueueOk
    \/ ConsumeOk
    \/ \E s \in ReuseSends : ExpiryTimerFire(s)
    \/ \E sid \in Sids : ReceiptArrive(1, "receipt", sid, FALSE)
    \/ \E sid \in Sids : GraceTimerFire(sid)

InitReuse == TransportWith({1}, ReuseSends, FALSE) /\ NoPhone

SpecReuse == InitReuse /\ [][ReuseNext]_vars

\* C39: registrations under a reused correlation id do not interfere: the
\* callback a sendSMS call has registered leaves the registry only by that
\* call's own 5 minute timer, by a 1 minute timer set on a receipt, by that
\* call's own cleanup after a failed publish, or when another call registers
\* under the id, never by the 5 minute timer of another call
C39_ReusedSidNoInterference ==
    [][\A r \in ReuseSends :
          (/\ sendSid[r] # 0
           /\ deliveryCallbacks[sendSid[r]] = r
           /\ deliveryCallbacks'[sendSid[r]] = 0)
              => \/ expiryTimer[r] /\ ~expiryTimer'[r]
                 \/ graceTimers'[sendSid[r]] < graceTimers[sendSid[r]]
                 \/ sendPc[r] # "done" /\ sendPc'[r] = "done"
                                       /\ sendResult'[r] = "error"
                 \/ \E s \in ReuseSends : s # r /\ Publishes(s)]_vars

====
